---- MODULE Spec2Model ----
(***************************************************************************)
(* The marketing bot:                                                      *)
(*   - the workflow-template dispatcher (handlers/core_clean_actions.py),  *)
(*   - the project-tracker adapter (services/monday_service.py),           *)
(*   - the fallback suggestions of the generative-text adapter             *)
(*     (services/ai_service.py) and of the handlers,                       *)
(*   - the modal navigation helper (modals/core_modal_system.py),          *)
(*   - the unified campaign submission, the top-level error handler and    *)
(*     the suggestion cache (handlers/core_clean_actions.py),              *)
(*   - the message formatter (utils/slack_formatting.py) and the posting   *)
(*     helper of the handlers,                                             *)
(*   - the boot sequence (main.py, config/config.py).                      *)
(*                                                                         *)
(* Python values are modelled as follows.  A str is a TLA+ string; a str   *)
(* whose characters the code inspects (split, strip) is a sequence of      *)
(* one-character strings.  A value that may also be None is tagged:        *)
(* Str(v) or None.  A dict is a function whose DOMAIN is its key set.      *)
(* A raised exception is the value Raise(e).  hash() is left               *)
(* uninterpreted: an identifier keeps the text that was hashed.            *)
(* A datetime is a day number counted from 2025-01-01 (day 0); the time of *)
(* day is dropped, since every offset the code applies is a whole number   *)
(* of days.                                                                *)
(***************************************************************************)
EXTENDS Integers, Sequences, FiniteSets, TLC

VARIABLES
    now,          \* datetime.now(), as a day number
    api_key,      \* AIService.api_key: TRUE iff OPENAI_API_KEY is set
    call,         \* the operation invoked last, with its arguments
    result,       \* what that operation returned (or Raise(e))
    email_only_results,  \* campaign name -> result of its latest email-only dispatch, or None
    environ,      \* os.environ: the three platform credentials
    bot,          \* the CoreMarketingBot: app, handlers, is_running, _initialized
    process,      \* where main() stands, with its exit code once it returned
    SUGGESTION_CACHE,  \* domain tag -> cached suggestions; "last_refresh" -> time or None
    clock,        \* time.time(), in seconds
    background_tasks,  \* tasks created by asyncio.create_task, not yet run
    spawn_times,  \* the clock at each asyncio.create_task so far
    completed     \* the background tasks that ran, with what the service gave them

boot_vars == <<environ, bot, process>>
cache_vars == <<SUGGESTION_CACHE, clock, background_tasks, spawn_times, completed>>
vars == <<now, api_key, call, result, email_only_results, boot_vars, cache_vars>>

(***************************************************************************)
(* Bounds of the model                                                     *)
(***************************************************************************)
MaxNow == 8        \* the clock runs over day 0 .. MaxNow
MaxLen == 4        \* longest deliverables text, in characters
MaxCount == 11     \* largest suggestion count requested
MaxClientCalls == 4 \* client calls whose outcome is chosen, per handler run
MaxSpawns == 2     \* background tasks created in one behaviour
MaxLinks == 2      \* links of a resource section
MaxTasks == 5      \* tasks handed to the message formatter

\* seconds between two refreshes of the suggestion cache
RefreshInterval == 300

(***************************************************************************)
(* Python values                                                           *)
(***************************************************************************)
None == [t |-> "None"]
Str(v) == [t |-> "str", v |-> v]
\* the outcome of a step that may raise: Returned(v) or Raise(e)
Returned(v) == [value |-> v]
Raise(e) == [raised |-> e]
IsRaise(x) == "raised" \in DOMAIN x

\* dict.get(key, default)
Get(d, key, default) == IF key \in DOMAIN d THEN d[key] ELSE default

\* truth value of a tagged str-or-None whose str is a TLA+ string
Truthy(x) == IF x = None THEN FALSE ELSE x.v # ""

\* truth value of a tagged str-or-None whose str is a character sequence
TruthyText(x) == IF x = None THEN FALSE ELSE x.v # <<>>

\* f"{x}" of a tagged str-or-None
Format(x) == IF x = None THEN "None" ELSE x.v

\* list[:n] for n >= 0
Take(s, n) == SubSeq(s, 1, IF n < Len(s) THEN n ELSE Len(s))

\* list * k
RECURSIVE Repeat(_, _)
Repeat(s, k) == IF k <= 0 THEN <<>> ELSE s \o Repeat(s, k - 1)

(***************************************************************************)
(* Workflow-template dispatcher (handlers/core_clean_actions.py)           *)
(***************************************************************************)
get_event_planning_workflow_template ==
    << [name |-> "Vendor Coordination & Calls",
        description |-> "Contact and coordinate with event vendors",
        assignee |-> "Kate or Karen",
        estimated_duration |-> "2-3 hours",
        dependencies |-> <<>>,
        calendar_reminder |-> TRUE],
       [name |-> "Creative Team Collaboration for Visual Experience",
        description |-> "Work with creative team on event visual design and branding",
        assignee |-> "Kate or Karen",
        estimated_duration |-> "3-4 hours",
        dependencies |-> <<"Vendor Coordination & Calls">>,
        calendar_reminder |-> TRUE],
       [name |-> "Physical Event Logistics Planning",
        description |-> "Plan event setup, layout, equipment, and operational details",
        assignee |-> "Kate or Karen",
        estimated_duration |-> "4-5 hours",
        dependencies |-> <<"Creative Team Collaboration for Visual Experience">>,
        calendar_reminder |-> TRUE],
       [name |-> "Event Setup and Operations",
        description |-> "On-site event setup and day-of operations management",
        assignee |-> "Kate or Karen",
        estimated_duration |-> "6-8 hours",
        dependencies |-> <<"Physical Event Logistics Planning">>,
        calendar_reminder |-> TRUE],
       [name |-> "Post-Event Wrap-up and Vendor Coordination",
        description |-> "Event breakdown, vendor settlements, and post-event coordination",
        assignee |-> "Kate or Karen",
        estimated_duration |-> "2-3 hours",
        dependencies |-> <<"Event Setup and Operations">>,
        calendar_reminder |-> TRUE] >>

get_email_campaign_workflow_template ==
    << [name |-> "Email Template Build",
        description |-> "Create and design email invitation template",
        assignee |-> "Jheryl",
        estimated_duration |-> "2-3 hours",
        dependencies |-> <<>>,
        calendar_reminder |-> FALSE],
       [name |-> "Email Content Creation & Copy",
        description |-> "Write email content, subject lines, and call-to-action copy",
        assignee |-> "Jheryl",
        estimated_duration |-> "1-2 hours",
        dependencies |-> <<"Email Template Build">>,
        calendar_reminder |-> FALSE],
       [name |-> "Email Invitation Scheduling",
        description |-> "Schedule email invitations and set up delivery timing",
        assignee |-> "Jheryl",
        estimated_duration |-> "1 hour",
        dependencies |-> <<"Email Content Creation & Copy">>,
        calendar_reminder |-> FALSE],
       [name |-> "Attendee Communication Setup",
        description |-> "Set up automated attendee communication workflows",
        assignee |-> "Jheryl",
        estimated_duration |-> "1-2 hours",
        dependencies |-> <<"Email Invitation Scheduling">>,
        calendar_reminder |-> FALSE],
       [name |-> "RSVP Management System",
        description |-> "Configure RSVP tracking and management system",
        assignee |-> "Jheryl",
        estimated_duration |-> "1-2 hours",
        dependencies |-> <<"Attendee Communication Setup">>,
        calendar_reminder |-> FALSE],
       [name |-> "Email Campaign QA & Send",
        description |-> "Quality assurance testing and final email campaign send",
        assignee |-> "Jheryl",
        estimated_duration |-> "1 hour",
        dependencies |-> <<"RSVP Management System">>,
        calendar_reminder |-> FALSE] >>

\* variant: the email parent is given the event-planning list
create_dual_parent_ticket_workflow_one_list(name, goal, target) ==
    LET event_planning_tasks == get_event_planning_workflow_template
        email_campaign_tasks == get_event_planning_workflow_template
    IN  [event_planning_parent |->
            [name |-> "Event Planning: " \o name,
             assignees |-> <<"Kate", "Karen">>,
             tasks |-> event_planning_tasks,
             total_tasks |-> Len(event_planning_tasks)],
         email_campaign_parent |->
            [name |-> "Email Campaign: " \o name,
             assignees |-> <<"Jheryl">>,
             tasks |-> email_campaign_tasks,
             total_tasks |-> Len(email_campaign_tasks)],
         event_planning_tasks |-> Len(event_planning_tasks),
         email_campaign_tasks |-> Len(email_campaign_tasks),
         total_parents |-> 2]

create_dual_parent_ticket_workflow(name, goal, target) ==
    LET event_planning_tasks == get_event_planning_workflow_template
        email_campaign_tasks == get_email_campaign_workflow_template
    IN  [event_planning_parent |->
            [name |-> "Event Planning: " \o name,
             assignees |-> <<"Kate", "Karen">>,
             tasks |-> event_planning_tasks,
             total_tasks |-> Len(event_planning_tasks)],
         email_campaign_parent |->
            [name |-> "Email Campaign: " \o name,
             assignees |-> <<"Jheryl">>,
             tasks |-> email_campaign_tasks,
             total_tasks |-> Len(email_campaign_tasks)],
         event_planning_tasks |-> Len(event_planning_tasks),
         email_campaign_tasks |-> Len(email_campaign_tasks),
         total_parents |-> 2]

\* variant: the reported count also counts the parent
create_email_only_workflow_counting_parent(name, goal, target) ==
    LET email_tasks == get_email_campaign_workflow_template
    IN  [email_campaign_parent |->
            [name |-> "Email Campaign: " \o name,
             assignees |-> <<"Jheryl">>,
             tasks |-> email_tasks,
             total_tasks |-> Len(email_tasks)],
         total_tasks |-> Len(email_tasks) + 1,
         total_parents |-> 1]

create_email_only_workflow(name, goal, target) ==
    LET email_tasks == get_email_campaign_workflow_template
    IN  [email_campaign_parent |->
            [name |-> "Email Campaign: " \o name,
             assignees |-> <<"Jheryl">>,
             tasks |-> email_tasks,
             total_tasks |-> Len(email_tasks)],
         total_tasks |-> Len(email_tasks),
         total_parents |-> 1]

\* variant: a tag that is neither of the two current tags is rejected
process_campaign_rejecting_unknown(name, goal, target, campaign_type) ==
    IF campaign_type = "physical_event"
    THEN create_dual_parent_ticket_workflow(name, goal, target)
    ELSE IF campaign_type = "email_only"
         THEN create_email_only_workflow(name, goal, target)
         ELSE Raise("ValueError")

process_campaign_with_workflow_templates(name, goal, target, campaign_type) ==
    IF campaign_type = "physical_event"
    THEN create_dual_parent_ticket_workflow(name, goal, target)
    ELSE create_email_only_workflow(name, goal, target)

(***************************************************************************)
(* Project-tracker adapter: the two legacy campaign methods                *)
(* (services/monday_service.py)                                            *)
(***************************************************************************)
create_physical_event_campaign(name, goal, target) ==
    LET event_ticket ==
            [id |-> [fmt |-> "event_", hash_of |-> name, mod |-> 10000],
             name |-> "Event Planning: " \o name,
             assignees |-> <<"kate@fetchrewards.com", "karen@fetchrewards.com">>,
             tasks |-> <<"Venue booking and logistics", "Event timeline and agenda",
                         "Speaker/presenter coordination", "Materials and setup planning",
                         "Registration process", "On-site execution", "Post-event follow-up">>]
        email_ticket ==
            [id |-> [fmt |-> "email_", hash_of |-> name, mod |-> 10000],
             name |-> "Email Campaign: " \o name,
             assignees |-> <<"jheryl@fetchrewards.com">>,
             tasks |-> <<"Email strategy", "Content creation", "Audience segmentation",
                         "Send automation", "Performance tracking">>]
    IN  [status |-> "created", campaign_type |-> "physical_event",
         event_ticket |-> event_ticket, email_ticket |-> email_ticket,
         event_board_url |-> "https://fetchrewards.monday.com/boards/123456",
         email_board_url |-> "https://fetchrewards.monday.com/boards/789012"]

create_email_only_campaign(name, goal, target) ==
    LET email_ticket ==
            [id |-> [fmt |-> "email_only_", hash_of |-> name, mod |-> 10000],
             name |-> "Email Campaign: " \o name,
             assignees |-> <<"jheryl@fetchrewards.com">>,
             tasks |-> <<"Campaign strategy", "Audience segmentation", "Content creation",
                         "A/B testing", "Send automation", "Performance analysis">>]
    IN  [status |-> "created", campaign_type |-> "email_only",
         email_ticket |-> email_ticket,
         board_url |-> "https://fetchrewards.monday.com/boards/789012"]

(***************************************************************************)
(* datetime (services/monday_service.py uses now(), timedelta, isoformat)  *)
(***************************************************************************)
MonthDays == <<31, 28, 31, 30, 31, 30, 31, 31, 30, 31, 30, 31>>   \* the year 2025
Digits == <<"0", "1", "2", "3", "4", "5", "6", "7", "8", "9">>
TwoDigits(n) == Digits[(n \div 10) + 1] \o Digits[(n % 10) + 1]

\* <<month, day of month>> of day number d, looking from month m on
RECURSIVE MonthDay(_, _)
MonthDay(d, m) ==
    IF d < MonthDays[m] THEN <<m, d + 1>> ELSE MonthDay(d - MonthDays[m], m + 1)

\* datetime.isoformat(), date part
isoformat(d) ==
    LET md == MonthDay(d, 1)
    IN  "2025-" \o TwoDigits(md[1]) \o "-" \o TwoDigits(md[2])

(***************************************************************************)
(* str.split and str.strip on character sequences                          *)
(***************************************************************************)
Whitespace == {" ", "\n", "\t", "\r"}

\* s.strip()
RECURSIVE LStrip(_)
LStrip(s) ==
    IF s # <<>> /\ Head(s) \in Whitespace THEN LStrip(Tail(s)) ELSE s
RECURSIVE RStrip(_)
RStrip(s) ==
    IF s # <<>> /\ s[Len(s)] \in Whitespace THEN RStrip(SubSeq(s, 1, Len(s) - 1)) ELSE s
Strip(s) == RStrip(LStrip(s))

\* s.split(sep): the pieces between the separators; cur is the piece being read
RECURSIVE SplitFrom(_, _, _)
SplitFrom(s, sep, cur) ==
    IF s = <<>> THEN <<cur>>
    ELSE IF Head(s) = sep THEN <<cur>> \o SplitFrom(Tail(s), sep, <<>>)
    ELSE SplitFrom(Tail(s), sep, Append(cur, Head(s)))
Split(s, sep) == SplitFrom(s, sep, <<>>)

\* the characters of a sequence as one TLA+ string
RECURSIVE Join(_)
Join(s) == IF s = <<>> THEN "" ELSE Head(s) \o Join(Tail(s))

(***************************************************************************)
(* Project-tracker adapter: the unified workflow                           *)
(* (services/monday_service.py)                                            *)
(***************************************************************************)
\* a list, tagged like Str(v); and the names that are lists, each written
\* as f"{name}" prints it: hash() of a list raises TypeError
List(v) == [t |-> "list", v |-> v]
UnhashableNames == {"['Fall Sale']"}

\* the parent task, or the TypeError of hash(campaign_name)
_create_parent_task(campaign_name, event_dates, location, requestor, t) ==
    IF campaign_name \in UnhashableNames
    THEN Raise("TypeError")
    ELSE [task_id |-> [fmt |-> "task_", hash_of |-> campaign_name, mod |-> 100000],
          name |-> campaign_name \o " - " \o Format(event_dates),
          status |-> "New Request",
          assignee |-> requestor,
          location |-> location,
          created_date |-> isoformat(t),
          type |-> "parent_task"]

\* variant: an empty event date is parsed, and the parse error escapes
event_date_of_unguarded(event_dates, t) ==
    IF Truthy(event_dates)
    THEN Returned(t + 30)
    ELSE Raise("ValueError")

\* the reference date: lines 184-191, read at time t
event_date_of(event_dates, t) ==
    IF Truthy(event_dates)
    THEN Returned(t + 30)    \* "Mock: assume event is in 30 days"
    ELSE Returned(t + 30)

\* [item.strip() for item in deliverables.split('\n') if item.strip()]
RECURSIVE StrippedNonBlank(_)
StrippedNonBlank(items) ==
    IF items = <<>> THEN <<>>
    ELSE (IF Strip(Head(items)) # <<>> THEN <<Strip(Head(items))>> ELSE <<>>)
         \o StrippedNonBlank(Tail(items))

\* variant: blank lines are kept
deliverable_items_unfiltered(deliverables) ==
    IF TruthyText(deliverables) /\ Strip(deliverables.v) # <<>>
    THEN LET lines == Split(deliverables.v, "\n")
         IN  [k \in 1..Len(lines) |-> Strip(lines[k])]
    ELSE <<>>

\* variant: the items are separated by commas
deliverable_items_by_comma(deliverables) ==
    IF TruthyText(deliverables) /\ Strip(deliverables.v) # <<>>
    THEN StrippedNonBlank(Split(deliverables.v, ","))
    ELSE <<>>

deliverable_items_of(deliverables) ==
    IF TruthyText(deliverables) /\ Strip(deliverables.v) # <<>>
    THEN StrippedNonBlank(Split(deliverables.v, "\n"))
    ELSE <<>>

\* variant: the creative review is due with the approval review
standard_subtasks_same_day(event_date) ==
    << [name |-> "Deliverable Design",
        assignee |-> "Kelly Redding",
        due_date |-> event_date - 14,
        estimated_duration |-> "2-3 business days",
        dependencies |-> <<>>],
       [name |-> "Creative Review",
        assignee |-> "Kelly Redding",
        due_date |-> event_date - 10,
        estimated_duration |-> "1-2 business days",
        dependencies |-> <<"Deliverable Design">>],
       [name |-> "EDEN Review",
        assignee |-> "Karen or Kate",
        due_date |-> event_date - 10,
        estimated_duration |-> "1-2 business days",
        dependencies |-> <<"Creative Review">>] >>

\* the list standard_subtasks before the deliverable items are appended
standard_subtasks_of(event_date) ==
    << [name |-> "Deliverable Design",
        assignee |-> "Kelly Redding",
        due_date |-> event_date - 14,
        estimated_duration |-> "2-3 business days",
        dependencies |-> <<>>],
       [name |-> "Creative Review",
        assignee |-> "Kelly Redding",
        due_date |-> event_date - 12,
        estimated_duration |-> "1-2 business days",
        dependencies |-> <<"Deliverable Design">>],
       [name |-> "EDEN Review",
        assignee |-> "Karen or Kate",
        due_date |-> event_date - 10,
        estimated_duration |-> "1-2 business days",
        dependencies |-> <<"Creative Review">>] >>

\* variant: the entry of a deliverable item is due before the reviews
custom_subtask_of_due_first(item, event_date) ==
    [name |-> "Custom: " \o Join(item),
     assignee |-> "To Be Assigned",
     due_date |-> event_date - 21,
     estimated_duration |-> "TBD",
     dependencies |-> <<"EDEN Review">>]

\* the entry appended for one deliverable item
custom_subtask_of(item, event_date) ==
    [name |-> "Custom: " \o Join(item),
     assignee |-> "To Be Assigned",
     due_date |-> event_date - 7,
     estimated_duration |-> "TBD",
     dependencies |-> <<"EDEN Review">>]

\* the subtask object generated for entry i (0-based) of the list
subtask_of(parent_task_id, i, subtask_data) ==
    [task_id |-> [fmt |-> "subtask_", hash_of |-> <<parent_task_id, i>>, mod |-> 100000],
     parent_id |-> parent_task_id,
     name |-> subtask_data.name,
     assignee |-> subtask_data.assignee,
     due_date |-> isoformat(subtask_data.due_date),
     estimated_duration |-> subtask_data.estimated_duration,
     dependencies |-> subtask_data.dependencies,
     status |-> "Not Started",
     type |-> "subtask",
     calendar_reminder |-> TRUE]

_create_campaign_subtasks(parent_task_id, deliverables, event_dates, t) ==
    LET event_date == event_date_of(event_dates, t)
    IN  IF IsRaise(event_date) THEN event_date
        ELSE IF deliverables.t = "list" /\ deliverables.v # <<>>
        THEN Raise("AttributeError")     \* a list has no strip()
        ELSE LET items == deliverable_items_of(deliverables)
                 all == standard_subtasks_of(event_date.value)
                        \o [k \in 1..Len(items) |->
                                custom_subtask_of(items[k], event_date.value)]
             IN  Returned([k \in 1..Len(all) |->
                              subtask_of(parent_task_id, k - 1, all[k])])

\* variant: when the subtasks cannot be created the parent is reported alone
create_unified_campaign_workflow_partial(campaign_data, t) ==
    LET campaign_name == Get(campaign_data, "event_name", "Untitled Campaign")
        event_dates == Get(campaign_data, "event_dates", Str(""))
        location == Get(campaign_data, "location", "")
        deliverables == Get(campaign_data, "deliverables", Str(<<>>))
        requestor == Get(campaign_data, "requestor", "Unknown")
        parent_task == _create_parent_task(campaign_name, event_dates, location, requestor, t)
        created == _create_campaign_subtasks(parent_task.task_id, deliverables,
                                             event_dates, t)
        subtasks == IF IsRaise(created) THEN <<>> ELSE created.value
        board_id == [fmt |-> "board_", hash_of |-> campaign_name, mod |-> 100000]
    IN  IF IsRaise(parent_task)
        THEN None
        ELSE [board_id |-> board_id,
              board_url |-> [fmt |-> "https://monday.com/boards/", board_id |-> board_id],
              parent_task |-> parent_task,
              subtasks |-> subtasks,
              total_tasks |-> Len(subtasks) + 1,
              created_at |-> isoformat(t)]

create_unified_campaign_workflow(campaign_data, t) ==
    LET campaign_name == Get(campaign_data, "event_name", "Untitled Campaign")
        event_dates == Get(campaign_data, "event_dates", Str(""))
        location == Get(campaign_data, "location", "")
        deliverables == Get(campaign_data, "deliverables", Str(<<>>))
        requestor == Get(campaign_data, "requestor", "Unknown")
        parent_task == _create_parent_task(campaign_name, event_dates, location, requestor, t)
        created == _create_campaign_subtasks(parent_task.task_id, deliverables,
                                             event_dates, t)
        subtasks == created.value
        board_id == [fmt |-> "board_", hash_of |-> campaign_name, mod |-> 100000]
    IN  IF IsRaise(parent_task) \/ IsRaise(created)
        THEN None      \* except Exception: return None
        ELSE [board_id |-> board_id,
              board_url |-> [fmt |-> "https://monday.com/boards/", board_id |-> board_id],
              parent_task |-> parent_task,
              subtasks |-> subtasks,
              total_tasks |-> Len(subtasks) + 1,
              created_at |-> isoformat(t)]

\* the legacy entry: {'event_name': campaign_name, **campaign_data}
create_campaign_board(campaign_name, campaign_data, t) ==
    create_unified_campaign_workflow(campaign_data @@ ("event_name" :> campaign_name), t)

(***************************************************************************)
(* Generative-text adapter (services/ai_service.py)                        *)
(***************************************************************************)
fallbacks_ai_service ==
    [email |-> <<"Weekly Bonus Points Roundup",
                 "Exclusive Partner Store Spotlight",
                 "Receipt Scanning Tips & Tricks",
                 "Member Milestone Celebration",
                 "Limited-Time Double Points Offer">>,
     social |-> <<"#ScanToWin Challenge",
                  "Receipt Art Contest",
                  "Fetch Friends Referral Drive",
                  "Store Partnership Announcements",
                  "User Success Story Features">>,
     content |-> <<"Smart Shopping Guide Blog Series",
                   "Receipt Scanning Best Practices",
                   "Partner Store Deep Dives",
                   "Cashback Optimization Tips",
                   "Mobile App Feature Tutorials">>,
     event |-> <<"Fetch Rewards User Meetup",
                 "Partner Store Pop-up Events",
                 "Mobile Scanning Workshops",
                 "Cashback Celebration Days",
                 "Referral Program Launch Events">>]

\* variant: the list is not repeated
CycleOnce(suggestions, count) == Take(suggestions, count)

\* (suggestions * ((count // len(suggestions)) + 1))[:count]
Cycle(suggestions, count) ==
    Take(Repeat(suggestions, (count \div Len(suggestions)) + 1), count)

_get_fallback_suggestions(campaign_type, count) ==
    LET suggestions == Get(fallbacks_ai_service, campaign_type,
                           fallbacks_ai_service["email"])
    IN  Cycle(suggestions, count)

\* [s.strip() for s in content.split('\n') if s.strip()], each as one string
suggestions_in(content) ==
    LET lines == StrippedNonBlank(Split(content, "\n"))
    IN  [k \in 1..Len(lines) |-> Join(lines[k])]

\* client: TRUE iff the OpenAI client was built; api: the outcome of
\* chat.completions.create, Returned(content) or Raise(e)
generate_campaign_suggestions(client, campaign_type, count, api) ==
    IF ~client
    THEN _get_fallback_suggestions(campaign_type, count)
    ELSE IF IsRaise(api)
         THEN _get_fallback_suggestions(campaign_type, count)
         ELSE Take(suggestions_in(api.value), count)

(***************************************************************************)
(* Emergency fallback suggestions of the handlers                          *)
(* (handlers/core_clean_actions.py)                                        *)
(***************************************************************************)
fallbacks_handlers ==
    [event |-> <<"Fetch Field Day - Team-building with brand booths and challenges",
                 "Rewards After Dark - Nighttime speakeasy with premium experiences",
                 "Receipt Race - Street team event with brand-specific goals">>,
     physical_event |->
               <<"Fetch Field Day - Physical team-building with brand booths and challenges",
                 "Rewards After Dark - Nighttime physical speakeasy with premium experiences",
                 "Receipt Race - Physical street team event with brand-specific goals">>,
     email_only |-> <<"Email Reward Challenge - Email-driven loyalty program",
                      "Digital Milestone Celebration - Email campaign for user achievements",
                      "Email Partner Spotlight - Partner anniversary email series">>,
     slides |-> <<"Marketing Channel Overview - Visual breakdown of Fetch's amplification",
                  "Pilot to Partnership: The First 90 Days - New partner onboarding",
                  "Field & Experiential Deck - Past event activations with metrics">>,
     campaign |-> <<"Brand Love Challenge - Gamified loyalty meets personalization",
                    "My First 100,000 Points - User milestone journey sharing",
                    "Brand Birthday Bash - Partner anniversaries with multipliers">>]

get_fallback_suggestions(suggestion_type, count) ==
    LET base == Get(fallbacks_handlers, suggestion_type, fallbacks_handlers["campaign"])
    IN  Cycle(base, count)

(***************************************************************************)
(* Inputs                                                                  *)
(***************************************************************************)
CampaignNames == {"Fall Sale", "Block Party", ""}
Goals == {"boost signups"}
Targets == {"new users"}
\* the campaign-type tag is free text: the two current tags, legacy tags,
\* an unknown tag, a differently-cased tag and the empty tag
CampaignTypes == {"physical_event", "email_only", "event", "email", "webinar",
                  "Physical_Event", ""}

\* deliverables texts: every character sequence of length <= MaxLen
Chars == {"a", "b", " ", "\n"}
Texts == UNION {[1..n -> Chars] : n \in 0..MaxLen}
Deliverables == {Str(x) : x \in Texts} \cup {None}

\* event dates: empty, unparseable, two dates as the date picker writes them, None
EventDates == {Str(""), Str("TBD"), Str("2025-02-20"), Str("2025-01-31"), None}
EventNames == {"Fall Sale"}
Locations == {"Chicago"}
Requestors == {"U123"}

\* the campaign_data dicts: every key present, or one of the optional keys missing
CampaignData ==
    LET full == { [event_name |-> n, event_dates |-> e, location |-> l,
                   deliverables |-> x, requestor |-> r] :
                     n \in EventNames, e \in EventDates, l \in Locations,
                     x \in Deliverables, r \in Requestors }
        no_dates == { [event_name |-> n, location |-> l, deliverables |-> x,
                       requestor |-> r] :
                     n \in EventNames, l \in Locations, x \in Deliverables,
                     r \in Requestors }
        no_deliverables == { [event_name |-> n, event_dates |-> e, location |-> l,
                              requestor |-> r] :
                     n \in EventNames, e \in EventDates, l \in Locations,
                     r \in Requestors }
        name_only == { [event_name |-> n] : n \in EventNames }
        empty == { [requestor |-> r] : r \in Requestors }
    IN  full \cup no_dates \cup no_deliverables \cup name_only \cup empty

\* domain tags of suggestion requests: the six the prompts know, the two
\* campaign-type tags, an unknown tag
SuggestionTypes == {"email", "social", "content", "event", "campaign", "slides",
                    "physical_event", "email_only", "webinar"}
Counts == 0..MaxCount

\* what chat.completions.create may do: raise, or return a text
AIContents == { <<>>, <<"a">>, <<"a", "\n", "b">>, <<" ", "a", " ", "\n", " ", "\n", "b", "a">>,
                <<"a", "\n", "b", "\n", "a", "b">> }
AIOutcomes == {Raise("APIError")} \cup {Returned(c) : c \in AIContents}

(***************************************************************************)
(* Operations.  A call runs to completion in one step and leaves its       *)
(* arguments in call and its return value in result; Return hands the      *)
(* result to the caller.                                                   *)
(***************************************************************************)
Idle == call.op = "none"

\* CoreMarketingBot.__init__ (main.py), with the handlers registered so far
CoreMarketingBot ==
    [app |-> None, handlers |-> <<>>, is_running |-> FALSE, _initialized |-> FALSE]

\* the module-level SUGGESTION_CACHE (handlers/core_clean_actions.py)
SUGGESTION_CACHE_at_import ==
    [campaign |->
        <<"Receipt Heroes Series - Feature real users with epic reward redemption stories",
          "Reward Refresh Week - Daily new reward drops and exclusive brand promos",
          "Scan Streaks - Weekly prizes for consecutive scans with leaderboard",
          "Surprise & Delight Drops - Random rewards for scanning within certain windows",
          "Holiday Hacks with Fetch - Position Fetch as money-saving hero for seasonal shopping">>,
     physical_event |->
        <<"Fetch Live: Rewards in Real Life - Immersive pop-up with physical receipt scanning",
          "Receipt Relay (Campus Tour) - College roadshow with scanning contests and swag",
          "Brand Partner Summit - Half-day immersion on Fetch's power and data",
          "Receipt Art Gallery - Transform user receipts into curated art experience",
          "Fetch Your Fortune (Festival Activation) - Branded booth with reward fortune tellers">>,
     email_only |->
        <<"Receipt Heroes Email Series - Spotlight top users via email campaigns",
          "Weekly Rewards Digest - Email newsletter with new reward announcements",
          "Scan Challenge Email Campaign - Email-driven weekly scanning competitions",
          "Surprise Rewards Email Drop - Email notifications for limited-time bonuses",
          "Holiday Savings Email Series - Email campaign for seasonal shopping tips">>,
     slides |->
        <<"Fetch 101: Brand Overview for New Partners - Mission, reach, user behavior showcase",
          "2025 Consumer Trends Report (Powered by Fetch Data) - Proprietary spending insights",
          "Fetch User Journey Map - Scan to reward path visualization",
          "Points Economy Explained - How Fetch points work and drive action",
          "Year-in-Review: Fetch Highlights + Metrics - User growth and standout moments">>,
     event |->
        <<"Fetch Live: Rewards in Real Life - Immersive pop-up with physical receipt scanning",
          "Receipt Relay (Campus Tour) - College roadshow with scanning contests and swag",
          "Brand Partner Summit - Half-day immersion on Fetch's power and data",
          "Receipt Art Gallery - Transform user receipts into curated art experience",
          "Fetch Your Fortune (Festival Activation) - Branded booth with reward fortune tellers">>,
     last_refresh |-> None]

\* the instants at which the clock is read, in seconds; the first is the
\* time at which the process starts
Instants == {1000, 1300, 1301}
StartTime == 1000

\* an environment with the three credentials in place
ConfiguredEnviron ==
    [SLACK_BOT_TOKEN |-> "valid", SLACK_SIGNING_SECRET |-> "valid",
     SLACK_APP_TOKEN |-> "valid"]

InitBase ==
    /\ call = [op |-> "none"]
    /\ result = None
    /\ email_only_results = [n \in CampaignNames |-> None]
    /\ environ = ConfiguredEnviron
    /\ bot = CoreMarketingBot
    /\ process = [pc |-> "main"]
    /\ SUGGESTION_CACHE = SUGGESTION_CACHE_at_import
    /\ clock = StartTime
    /\ background_tasks = <<>>
    /\ spawn_times = <<>>
    /\ completed = <<>>

\* time passes between calls
Tick ==
    /\ Idle
    /\ now < MaxNow
    /\ now' = now + 1
    /\ UNCHANGED <<api_key, call, result, email_only_results, boot_vars, cache_vars>>

\* the caller takes the result
Return ==
    /\ ~Idle
    /\ call' = [op |-> "none"]
    /\ result' = None
    /\ UNCHANGED <<now, api_key, email_only_results, boot_vars, cache_vars>>

\* one call of process_campaign_with_workflow_templates
Dispatch ==
    /\ Idle
    /\ \E name \in CampaignNames, goal \in Goals, target \in Targets,
          campaign_type \in CampaignTypes :
        LET r == process_campaign_with_workflow_templates(name, goal, target, campaign_type)
        IN  /\ call' = [op |-> "process_campaign_with_workflow_templates",
                        name |-> name, campaign_type |-> campaign_type]
            /\ result' = r
            /\ email_only_results' =
                  IF campaign_type # "physical_event" /\ ~IsRaise(r)
                  THEN [email_only_results EXCEPT ![name] = r]
                  ELSE email_only_results
    /\ UNCHANGED <<now, api_key, boot_vars, cache_vars>>

\* one call of MondayService.create_physical_event_campaign
PhysicalEventCampaign ==
    /\ Idle
    /\ \E name \in CampaignNames, goal \in Goals, target \in Targets :
        /\ call' = [op |-> "create_physical_event_campaign", name |-> name]
        /\ result' = create_physical_event_campaign(name, goal, target)
    /\ UNCHANGED <<now, api_key, email_only_results, boot_vars, cache_vars>>

\* one call of MondayService.create_email_only_campaign
EmailOnlyCampaign ==
    /\ Idle
    /\ \E name \in CampaignNames, goal \in Goals, target \in Targets :
        /\ call' = [op |-> "create_email_only_campaign", name |-> name]
        /\ result' = create_email_only_campaign(name, goal, target)
    /\ UNCHANGED <<now, api_key, email_only_results, boot_vars, cache_vars>>

\* one call of MondayService.create_unified_campaign_workflow
UnifiedWorkflow ==
    /\ Idle
    /\ \E campaign_data \in CampaignData :
        /\ call' = [op |-> "create_unified_campaign_workflow",
                    campaign_data |-> campaign_data, at |-> now]
        /\ result' = create_unified_campaign_workflow(campaign_data, now)
    /\ UNCHANGED <<now, api_key, email_only_results, boot_vars, cache_vars>>

\* what the legacy entry is given: names and deliverables that are not a str
BoardNames == {"Fall Sale"} \cup UnhashableNames
BoardDeliverables == {None, Str(<<"a", "\n", "b">>), List(<<>>), List(<<"a">>)}
BoardData ==
    { [event_dates |-> e, location |-> l, deliverables |-> x, requestor |-> r] :
         e \in {Str(""), Str("2025-02-20")}, l \in Locations,
         x \in BoardDeliverables, r \in Requestors }
    \cup { [location |-> l] : l \in Locations }
    \cup { [event_name |-> "Block Party", deliverables |-> x] : x \in BoardDeliverables }

\* one call of MondayService.create_campaign_board
CampaignBoard ==
    /\ Idle
    /\ \E campaign_name \in BoardNames, campaign_data \in BoardData :
        /\ call' = [op |-> "create_campaign_board", campaign_name |-> campaign_name,
                    campaign_data |-> campaign_data @@ ("event_name" :> campaign_name),
                    at |-> now]
        /\ result' = create_campaign_board(campaign_name, campaign_data, now)
    /\ UNCHANGED <<now, api_key, email_only_results, boot_vars, cache_vars>>

\* one call of AIService.generate_campaign_suggestions
GenerateCampaignSuggestions ==
    /\ Idle
    /\ \E campaign_type \in SuggestionTypes, count \in Counts :
        \/ /\ ~api_key
           /\ call' = [op |-> "generate_campaign_suggestions",
                       campaign_type |-> campaign_type, count |-> count,
                       client |-> FALSE]
           /\ result' = Returned(generate_campaign_suggestions(
                                     FALSE, campaign_type, count, None))
        \/ /\ api_key
           /\ \E api \in AIOutcomes :
               /\ call' = [op |-> "generate_campaign_suggestions",
                           campaign_type |-> campaign_type, count |-> count,
                           client |-> TRUE, api |-> api]
               /\ result' = Returned(generate_campaign_suggestions(
                                         TRUE, campaign_type, count, api))
    /\ UNCHANGED <<now, api_key, email_only_results, boot_vars, cache_vars>>

\* one call of get_fallback_suggestions
GetFallbackSuggestions ==
    /\ Idle
    /\ \E suggestion_type \in SuggestionTypes, count \in Counts :
        /\ call' = [op |-> "get_fallback_suggestions",
                    suggestion_type |-> suggestion_type, count |-> count]
        /\ result' = Returned(get_fallback_suggestions(suggestion_type, count))
    /\ UNCHANGED <<now, api_key, email_only_results, boot_vars, cache_vars>>

\* the dispatcher and the two legacy adapter methods
InitDispatch == InitBase /\ now = 0 /\ api_key = FALSE
NextDispatch ==
    \/ Dispatch
    \/ PhysicalEventCampaign
    \/ EmailOnlyCampaign
    \/ Return
SpecDispatch == InitDispatch /\ [][NextDispatch]_vars

\* the unified workflow, with the clock
InitUnified == InitBase /\ now = 0 /\ api_key = FALSE
NextUnified ==
    \/ Tick
    \/ UnifiedWorkflow
    \/ CampaignBoard
    \/ Return
SpecUnified == InitUnified /\ [][NextUnified]_vars

\* the fallback suggestions; the environment decides whether the key is set
InitSuggestions == InitBase /\ now = 0 /\ api_key \in BOOLEAN
NextSuggestions ==
    \/ GenerateCampaignSuggestions
    \/ GetFallbackSuggestions
    \/ Return
SpecSuggestions == InitSuggestions /\ [][NextSuggestions]_vars

(***************************************************************************)
(* Modal navigation (modals/core_modal_system.py).  A run of the helper    *)
(* is the list of client calls it made, each with the outcome the platform *)
(* gave it, and the exception that left the helper ("none" if it           *)
(* returned).  outcomes[k] tells whether the k-th client call succeeds.    *)
(***************************************************************************)
\* "view" in body and "id" in body["view"]
has_view_id(body) == "view" \in DOMAIN body /\ "id" \in DOMAIN body.view

\* "trigger_id" in body and body["trigger_id"]
has_trigger_id(body) == "trigger_id" \in DOMAIN body /\ body.trigger_id # ""

\* await client.<method>(...): one more call, which returns or raises
Attempt(calls, method, target, outcomes) ==
    LET ok == outcomes[Len(calls) + 1]
    IN  [calls |-> Append(calls, [method |-> method, target |-> target, ok |-> ok]),
         exc |-> IF ok THEN "none" ELSE "SlackApiError"]

Raised(calls, e) == [calls |-> calls, exc |-> e]

\* variant: an update without a view id is refused
update_navigation_without_fallback(body, outcomes) ==
    IF ~has_view_id(body)
    THEN Raised(<<>>, "ValueError")
    ELSE LET first == Attempt(<<>>, "views_update", body.view.id, outcomes)
         IN  IF first.exc = "none" THEN first
             ELSE IF has_trigger_id(body)
                  THEN Attempt(first.calls, "views_open", body.trigger_id, outcomes)
                  ELSE first

\* lines 47-61
update_navigation(body, outcomes) ==
    IF ~has_view_id(body)
    THEN IF has_trigger_id(body)
         THEN Attempt(<<>>, "views_open", body.trigger_id, outcomes)
         ELSE Raised(<<>>, "ValueError")
    ELSE LET first == Attempt(<<>>, "views_update", body.view.id, outcomes)
         IN  IF first.exc = "none" THEN first
             ELSE IF has_trigger_id(body)
                  THEN Attempt(first.calls, "views_open", body.trigger_id, outcomes)
                  ELSE first

\* variant: a push without a trigger id is refused
push_navigation_without_fallback(body, outcomes) ==
    IF ~has_trigger_id(body)
    THEN Raised(<<>>, "ValueError")
    ELSE LET first == Attempt(<<>>, "views_push", body.trigger_id, outcomes)
         IN  IF first.exc = "none" THEN first
             ELSE IF has_view_id(body)
                  THEN Attempt(first.calls, "views_update", body.view.id, outcomes)
                  ELSE first

\* lines 63-77
push_navigation(body, outcomes) ==
    IF ~has_trigger_id(body)
    THEN IF has_view_id(body)
         THEN Attempt(<<>>, "views_update", body.view.id, outcomes)
         ELSE Raised(<<>>, "ValueError")
    ELSE LET first == Attempt(<<>>, "views_push", body.trigger_id, outcomes)
         IN  IF first.exc = "none" THEN first
             ELSE IF has_view_id(body)
                  THEN Attempt(first.calls, "views_update", body.view.id, outcomes)
                  ELSE first

\* lines 79-87
open_navigation(body, outcomes) ==
    IF ~has_trigger_id(body)
    THEN IF has_view_id(body)
         THEN Attempt(<<>>, "views_update", body.view.id, outcomes)
         ELSE Raised(<<>>, "ValueError")
    ELSE Attempt(<<>>, "views_open", body.trigger_id, outcomes)

\* lines 36-45: what "auto" resolves to
resolved_navigation_type(body, navigation_type) ==
    IF navigation_type # "auto" THEN navigation_type
    ELSE IF has_view_id(body) THEN "update"
    ELSE IF has_trigger_id(body) THEN "open"
    ELSE IF "view" \in DOMAIN body THEN "update"
    ELSE "open"

\* a variant of the last resort that swallows the failure of both methods
last_resort_swallowing(body, calls, outcomes) ==
    LET updated == IF has_view_id(body)
                   THEN Attempt(calls, "views_update", body.view.id, outcomes)
                   ELSE Raised(calls, "skipped")
    IN  IF updated.exc = "none" THEN updated
        ELSE IF has_trigger_id(body)
             THEN LET opened == Attempt(updated.calls, "views_open",
                                        body.trigger_id, outcomes)
                  IN  Raised(opened.calls, "none")
             ELSE Raised(updated.calls, "none")

\* lines 95-108: after a failure other than ValueError, try whatever is there
last_resort(body, calls, outcomes) ==
    LET updated == IF has_view_id(body)
                   THEN Attempt(calls, "views_update", body.view.id, outcomes)
                   ELSE Raised(calls, "skipped")
    IN  IF updated.exc = "none" THEN updated
        ELSE IF has_trigger_id(body)
             THEN LET opened == Attempt(updated.calls, "views_open",
                                        body.trigger_id, outcomes)
                  IN  IF opened.exc = "none" THEN opened
                      ELSE Raised(opened.calls, "Exception")
             ELSE Raised(updated.calls, "Exception")

handle_modal_navigation(body, navigation_type, outcomes) ==
    LET resolved == resolved_navigation_type(body, navigation_type)
        attempt == CASE resolved = "update" -> update_navigation(body, outcomes)
                     [] resolved = "push" -> push_navigation(body, outcomes)
                     [] resolved = "open" -> open_navigation(body, outcomes)
                     [] OTHER -> Raised(<<>>, "ValueError")
    IN  IF attempt.exc \in {"none", "ValueError"}
        THEN attempt
        ELSE last_resort(body, attempt.calls, outcomes)

\* event bodies: the trigger id absent, empty or set; the view absent,
\* without an id, or with one
Bodies ==
    { [type |-> "block_actions"],
      [type |-> "block_actions", trigger_id |-> ""],
      [type |-> "block_actions", trigger_id |-> "T1"],
      [type |-> "block_actions", view |-> [type |-> "modal"]],
      [type |-> "block_actions", trigger_id |-> "", view |-> [type |-> "modal"]],
      [type |-> "block_actions", trigger_id |-> "T1", view |-> [type |-> "modal"]],
      [type |-> "block_actions", view |-> [type |-> "modal", id |-> "V1"]],
      [type |-> "block_actions", trigger_id |-> "",
       view |-> [type |-> "modal", id |-> "V1"]],
      [type |-> "block_actions", trigger_id |-> "T1",
       view |-> [type |-> "modal", id |-> "V1"]] }
NavigationTypes == {"auto", "update", "push", "open", "replace"}
ClientOutcomes == [1..MaxClientCalls -> BOOLEAN]

\* one call of handle_modal_navigation
HandleModalNavigation ==
    /\ Idle
    /\ \E body \in Bodies, navigation_type \in NavigationTypes,
          outcomes \in ClientOutcomes :
        /\ call' = [op |-> "handle_modal_navigation", body |-> body,
                    navigation_type |-> navigation_type, outcomes |-> outcomes]
        /\ result' = handle_modal_navigation(body, navigation_type, outcomes)
    /\ UNCHANGED <<now, api_key, email_only_results, boot_vars, cache_vars>>

InitNavigation == InitBase /\ now = 0 /\ api_key = FALSE
NextNavigation ==
    \/ HandleModalNavigation
    \/ Return
SpecNavigation == InitNavigation /\ [][NextNavigation]_vars

(***************************************************************************)
(* The unified campaign submission (handlers/core_clean_actions.py).  A    *)
(* run of the handler is the list of things it did, in order - the         *)
(* acknowledgement, the adapter calls, the client calls - and the          *)
(* exception that left it ("none" if it returned).  Texts typed into the   *)
(* form are sequences of pieces, Str(<<...>>); a field submitted as null   *)
(* is None; a dict is a function on the keys it holds.                     *)
(***************************************************************************)
\* values.get(block, {}).get(action, {}).get(key, "")
form_value(values, block, action, key) ==
    Get(Get(Get(values, block, <<>>), action, <<>>), key, Str(<<>>))

extract_campaign_form_data(values) ==
    [event_name |-> form_value(values, "event_name", "event_name_input", "value"),
     event_dates |-> LET d == Get(Get(Get(values, "event_dates", <<>>),
                                      "event_dates_input", <<>>),
                                  "selected_date", Str(""))
                     IN  d,
     location |-> form_value(values, "location", "location_input", "value"),
     campaign_goals |-> form_value(values, "campaign_goals", "campaign_goals_input",
                                   "value"),
     deliverables |-> form_value(values, "deliverables", "deliverables_input", "value")]

\* not text.strip(), for a text that is a str
Blank(text) == Strip(text.v) = <<>>

\* the errors dict, or the AttributeError of None.strip()
validate_campaign_form(form_data) ==
    IF form_data.event_name = None \/ form_data.location = None
    THEN Raise("AttributeError")
    ELSE Returned(
           (IF Blank(form_data.event_name)
            THEN ("event_name" :> "Event name is required") ELSE <<>>)
           @@ (IF ~Truthy(form_data.event_dates)
               THEN ("event_dates" :> "Event date is required") ELSE <<>>)
           @@ (IF Blank(form_data.location)
               THEN ("location" :> "Location is required") ELSE <<>>))

Ack == [kind |-> "ack", response_action |-> "none"]
AckErrors(errors) == [kind |-> "ack", response_action |-> "errors", errors |-> errors]
AdapterCall(service, method, outcome) ==
    [kind |-> "adapter", service |-> service, method |-> method, outcome |-> outcome]
ClientCall(method, target, text, ok) ==
    [kind |-> "client", method |-> method, target |-> target, text |-> text, ok |-> ok]

\* GoogleCalendarService.create_campaign_event: the mock always answers
create_campaign_event(event_data) ==
    LET event_id == [fmt |-> "event_", hash_of |-> event_data.title, mod |-> 100000]
    IN  [event_id |-> event_id,
         event_url |-> [fmt |-> "https://calendar.google.com/calendar/event?eid=",
                        event_id |-> event_id],
         title |-> event_data.title,
         start_date |-> Format(event_data.start_date),
         status |-> "created"]

\* the docs adapter: the brief it creates, its failure signal, or an exception
create_campaign_brief(campaign_data, outcome) ==
    CASE outcome = "created" ->
            Returned([doc_id |-> [fmt |-> "doc_", hash_of |-> campaign_data.event_name],
                      doc_url |-> [fmt |-> "https://docs.google.com/document/d/",
                                   hash_of |-> campaign_data.event_name]])
      [] outcome = "failed" -> Returned(None)
      [] OTHER -> Raise("Exception")

\* SlackFormatter.TEAM_EMAIL_MAP on the lowered names of the assignee labels
TEAM_EMAIL_MAP ==
    ("kelly redding" :> "k.redding@fetchrewards.com")
    @@ ("karen" :> "k.lowry@fetchrewards.com")
    @@ ("kate" :> "k.jeffries@fetchrewards.com")

\* name.lower().strip() and name.split(" or ") on the labels of the templates
LoweredName ==
    ("Kelly Redding" :> "kelly redding") @@ ("Karen" :> "karen")
    @@ ("Kate" :> "kate") @@ ("To Be Assigned" :> "to be assigned")
PartsOfName ==
    ("Kelly Redding" :> <<"Kelly Redding">>) @@ ("Karen or Kate" :> <<"Karen", "Kate">>)
    @@ ("To Be Assigned" :> <<"To Be Assigned">>)

\* lookup_slack_user: the lookups made (at most one) and the mention or None;
\* directory holds the e-mail addresses the workspace knows
lookup_slack_user(directory, name) ==
    LET name_lower == LoweredName[name]
    IN  IF name_lower \notin DOMAIN TEAM_EMAIL_MAP
        THEN [calls |-> <<>>, mention |-> None]
        ELSE LET email == TEAM_EMAIL_MAP[name_lower]
                 found == email \in directory
             IN  [calls |-> <<ClientCall("users_lookupByEmail", email, None, found)>>,
                  mention |-> IF found THEN Str("<@" \o email \o ">") ELSE None]

\* one part of an assignee label: the mention, or the name in bold
formatted_part(directory, name) ==
    LET looked == lookup_slack_user(directory, name)
    IN  [calls |-> looked.calls,
         text |-> IF looked.mention # None THEN looked.mention.v
                  ELSE "*" \o name \o "*"]

\* format_assignee_name: the parts joined by " or "
RECURSIVE formatted_parts(_, _)
formatted_parts(directory, parts) ==
    IF parts = <<>> THEN [calls |-> <<>>, text |-> ""]
    ELSE LET first == formatted_part(directory, Head(parts))
             rest == formatted_parts(directory, Tail(parts))
         IN  [calls |-> first.calls \o rest.calls,
              text |-> IF Tail(parts) = <<>> THEN first.text
                       ELSE first.text \o " or " \o rest.text]

format_assignee_name(directory, name) == formatted_parts(directory, PartsOfName[name])

\* the lines of the first three tasks, and the lookups made for them
RECURSIVE task_lines(_, _)
task_lines(directory, tasks) ==
    IF tasks = <<>> THEN [calls |-> <<>>, lines |-> <<>>]
    ELSE LET first == format_assignee_name(directory, Head(tasks).assignee)
             rest == task_lines(directory, Tail(tasks))
         IN  [calls |-> first.calls \o rest.calls,
              lines |-> <<[name |-> Head(tasks).name, assignee |-> first.text]>>
                        \o rest.lines]

\* campaign_success_message_with_mentions: the parts of the message
campaign_success_message_with_mentions(directory, name, links, workflow_tasks) ==
    LET shown == task_lines(directory, Take(workflow_tasks, 3))
    IN  [calls |-> shown.calls,
         text |-> [template |-> "Campaign Created",
                   name |-> name,
                   links |-> links,
                   tasks |-> shown.lines,
                   more |-> IF Len(workflow_tasks) > 3
                            THEN Len(workflow_tasks) - 3 ELSE 0]]

\* a variant that also sends the direct message when the channel post worked
post_to_channel_safe_always_dm(channel, text, user_id, posts) ==
    <<ClientCall("chat_postMessage", channel, text, posts[1]),
      ClientCall("chat_postMessage", user_id, [from |-> channel, text |-> text],
                 posts[2])>>

\* post_to_channel_safe: the channel, then the user; posts[k] tells whether
\* the k-th chat_postMessage of the run succeeds
post_to_channel_safe(channel, text, user_id, posts) ==
    IF posts[1]
    THEN <<ClientCall("chat_postMessage", channel, text, TRUE)>>
    ELSE <<ClientCall("chat_postMessage", channel, text, FALSE),
           ClientCall("chat_postMessage", user_id,
                      [from |-> channel, text |-> text], posts[2])>>

\* send_error_message: the first chat_postMessage of a run that failed
send_error_message(user_id, error_text, posts) ==
    <<ClientCall("chat_postMessage", user_id, [error |-> error_text], posts[1])>>

CHANNELS == [EVENTS |-> "#marketing-event-updates-hackathon",
             CAMPAIGNS |-> "#marketing-event-updates-hackathon"]

\* the reminders of step 4: flagged subtasks of the reviewer pair
RECURSIVE reminder_calls(_, _)
reminder_calls(subtasks, event_name) ==
    IF subtasks = <<>> THEN <<>>
    ELSE (IF Head(subtasks).calendar_reminder /\ Head(subtasks).assignee \in {"Karen or Kate"}
          THEN <<AdapterCall("calendar", "create_campaign_event",
                     create_campaign_event(
                        [title |-> "Due: " \o Head(subtasks).name \o " - " \o event_name,
                         start_date |-> Str(Head(subtasks).due_date)]))>>
          ELSE <<>>)
         \o reminder_calls(Tail(subtasks), event_name)

\* lines 1430-1519
process_unified_campaign_workflow(form_data, user_id, env, t) ==
    LET event_name == Join(form_data.event_name.v)
        campaign_data == [event_name |-> event_name,
                          event_dates |-> form_data.event_dates,
                          location |-> Join(form_data.location.v),
                          campaign_goals |-> form_data.campaign_goals,
                          deliverables |-> form_data.deliverables,
                          requestor |-> user_id]
        calendar_result == create_campaign_event(
                              [title |-> event_name, start_date |-> form_data.event_dates])
        brief == create_campaign_brief(campaign_data, env.brief)
        first == <<AdapterCall("calendar", "create_campaign_event", calendar_result),
                   AdapterCall("docs", "create_campaign_brief", brief)>>
    IN  IF IsRaise(brief) THEN [events |-> first, exc |-> "Exception"]
        ELSE
        LET brief_result == brief.value
            monday_result == create_unified_campaign_workflow(campaign_data, t)
            subtasks == IF monday_result # None THEN monday_result.subtasks ELSE <<>>
            reminders == reminder_calls(subtasks, event_name)
            monday_link == IF monday_result # None
                           THEN <<[label |-> "Monday.com Workflow",
                                   url |-> monday_result.board_url]>>
                           ELSE <<>>
            calendar_link == <<[label |-> "Google Calendar Event",
                                url |-> calendar_result.event_url]>>
            update == IF brief_result # None
                      THEN <<AdapterCall("docs", "update_brief_with_links",
                                IF env.update
                                THEN Returned(monday_link \o calendar_link)
                                ELSE Raise("Exception"))>>
                      ELSE <<>>
            second == first
                      \o <<AdapterCall("monday", "create_unified_campaign_workflow",
                                       monday_result)>>
                      \o reminders \o update
        IN  IF brief_result # None /\ ~env.update
            THEN [events |-> second, exc |-> "Exception"]
            ELSE
            LET links ==
                    (IF brief_result # None
                     THEN <<[label |-> "Brief Doc", url |-> brief_result.doc_url]>>
                     ELSE <<>>)
                    \o (IF monday_result # None
                        THEN <<[label |-> "Monday.com Tickets",
                                tasks |-> monday_result.total_tasks,
                                url |-> monday_result.board_url]>>
                        ELSE <<>>)
                    \o calendar_link
                    \o (IF reminders # <<>>
                        THEN <<[label |-> "Calendar Reminders",
                                scheduled |-> Len(reminders), url |-> "#"]>>
                        ELSE <<>>)
                message == campaign_success_message_with_mentions(
                               env.directory, event_name, links, subtasks)
                target_channel == IF TruthyText(form_data.campaign_goals)
                                  THEN CHANNELS.CAMPAIGNS ELSE CHANNELS.EVENTS
            IN  [events |-> second \o message.calls
                            \o post_to_channel_safe(target_channel, message.text,
                                                    user_id, env.posts),
                 exc |-> "none"]

\* lines 933-956
handle_unified_campaign_submit(body, env, t) ==
    LET user_id == body.user.id
        values == body.view.state.values
        form_data == extract_campaign_form_data(values)
        validation_errors == validate_campaign_form(form_data)
    IN  IF IsRaise(validation_errors)
        THEN [events |-> <<>>, exc |-> validation_errors.raised]
        ELSE IF validation_errors.value # <<>>
        THEN [events |-> <<AckErrors(validation_errors.value)>>, exc |-> "none"]
        ELSE LET run == process_unified_campaign_workflow(form_data, user_id, env, t)
             IN  IF run.exc = "none"
                 THEN [events |-> <<Ack>> \o run.events, exc |-> "none"]
                 ELSE [events |-> <<Ack>> \o run.events
                                  \o send_error_message(user_id,
                                        "Failed to process campaign. Please try again.",
                                        env.posts),
                       exc |-> "none"]

\* what the modal can submit for a text field: the block missing, null, or a text
Field(block, action, key, texts) ==
    {<<>>} \cup {(block :> (action :> (key :> x))) : x \in texts}
NameTexts == {None, Str(<<>>), Str(<<" ">>), Str(<<"Fall Sale">>),
              Str(<<" ", "Fall Sale", " ">>)}
DateTexts == {None, Str("2025-02-20")}
LocationTexts == {None, Str(<<" ", "\n">>), Str(<<"Chicago">>)}
GoalTexts == {None, Str(<<"grow">>)}
DeliverableTexts == {None, Str(<<"a", "\n", "b">>)}
FormValues ==
    { n @@ d @@ l @@ g @@ x :
        n \in Field("event_name", "event_name_input", "value", NameTexts),
        d \in Field("event_dates", "event_dates_input", "selected_date", DateTexts),
        l \in Field("location", "location_input", "value", LocationTexts),
        g \in Field("campaign_goals", "campaign_goals_input", "value", GoalTexts),
        x \in Field("deliverables", "deliverables_input", "value", DeliverableTexts) }

\* what the services do during one run
TeamEmails == {TEAM_EMAIL_MAP[n] : n \in DOMAIN TEAM_EMAIL_MAP}
Environments ==
    [brief : {"created", "failed", "raised"},
     update : BOOLEAN,
     directory : SUBSET TeamEmails,
     posts : [1..2 -> BOOLEAN]]

\* one submission of the unified campaign form
UnifiedCampaignSubmit ==
    /\ Idle
    /\ \E values \in FormValues, env \in Environments, user_id \in Requestors :
        LET body == [user |-> [id |-> user_id],
                     view |-> [state |-> [values |-> values]]]
        IN  /\ call' = [op |-> "handle_unified_campaign_submit", body |-> body,
                        env |-> env, at |-> now]
            /\ result' = handle_unified_campaign_submit(body, env, now)
    /\ UNCHANGED <<now, api_key, email_only_results, boot_vars, cache_vars>>

InitSubmit == InitBase /\ now = 0 /\ api_key = FALSE
NextSubmit ==
    \/ UnifiedCampaignSubmit
    \/ Return
SpecSubmit == InitSubmit /\ [][NextSubmit]_vars

(***************************************************************************)
(* The top-level error handler (handlers/core_clean_actions.py).  The text *)
(* of an error is a sequence of words; a platform error carries its code   *)
(* as one word, and "x in text" holds when x is one of the words.          *)
(***************************************************************************)
\* str.lower() on the words that are not already lower case
Lowered == ("Expired_Trigger_Id" :> "expired_trigger_id")
lower(word) == IF word \in DOMAIN Lowered THEN Lowered[word] ELSE word

\* the codes for which no message is sent (line 357)
SuppressedCodes == {"expired_trigger_id", "invalid_auth", "push_limit_reached"}

Apology ==
    [apology |-> "Oops! Something went wrong. Please try again or contact support if the issue persists."]

\* variant: every error is reported to the user
global_error_handler_unfiltered(error_msg, body, post_ok) ==
    LET user_id == Get(Get(body, "user", <<>>), "id", "unknown")
    IN  [events |-> <<ClientCall("chat_postMessage", user_id, Apology, post_ok)>>,
         exc |-> "none"]

\* lines 346-367; post_ok tells whether chat_postMessage succeeds
global_error_handler(error_msg, body, post_ok) ==
    LET user_id == Get(Get(body, "user", <<>>), "id", "unknown")
        words == {lower(error_msg[k]) : k \in 1..Len(error_msg)}
    IN  IF \E x \in SuppressedCodes : x \in words
        THEN [events |-> <<>>, exc |-> "none"]
        ELSE [events |-> <<ClientCall("chat_postMessage", user_id, Apology, post_ok)>>,
              exc |-> "none"]

\* str(error) of the errors that reach the handler: platform errors with
\* their code, and an error of the bot's own code
ErrorTexts ==
    { <<"expired_trigger_id">>,
      <<"The server responded with:", "invalid_auth">>,
      <<"The server responded with:", "push_limit_reached">>,
      <<"The server responded with:", "ratelimited">>,
      <<"The server responded with:", "Expired_Trigger_Id">>,
      <<"The server responded with:", "channel_not_found">>,
      <<"'NoneType' object has no attribute 'strip'">>,
      <<>> }
\* bodies of an interaction (with the acting user) and of a slash command
ErrorBodies ==
    { [type |-> "block_actions", user |-> [id |-> "U123"]],
      [type |-> "view_submission", user |-> [id |-> "U456"]],
      [command |-> "/campaign", user_id |-> "U123"] }

(***************************************************************************)
(* Boot (main.py, config/config.py).  A credential is "" when the variable *)
(* is unset or empty, "invalid" when the platform rejects it, "valid"      *)
(* otherwise.                                                              *)
(***************************************************************************)
CredentialValues == {"", "invalid", "valid"}
Environs ==
    [SLACK_BOT_TOKEN : CredentialValues, SLACK_SIGNING_SECRET : CredentialValues,
     SLACK_APP_TOKEN : CredentialValues]

load_config(env) ==
    [slack_bot_token |-> env.SLACK_BOT_TOKEN,
     slack_signing_secret |-> env.SLACK_SIGNING_SECRET,
     slack_app_token |-> env.SLACK_APP_TOKEN]

\* variant: the app token is not among the required fields
validate_config_without_app_token(config) ==
    \A field \in {"slack_bot_token", "slack_signing_secret"} : config[field] # ""

validate_config(config) ==
    \A field \in {"slack_bot_token", "slack_signing_secret", "slack_app_token"} :
        config[field] # ""

\* the registrars called by _register_handlers, in order
Registrars ==
    <<"register_slash_commands", "register_simple_handlers",
      "register_campaign_submission", "register_clean_actions",
      "register_core_modals">>

\* initialize, lines 65-68: the configuration is loaded and validated
ValidateConfiguration ==
    /\ process.pc = "main"
    /\ process' = [pc |-> IF validate_config(load_config(environ))
                          THEN "validated" ELSE "raised"]
    /\ UNCHANGED <<now, api_key, call, result, email_only_results, environ, bot,
                   cache_vars>>

\* _create_slack_app
CreateSlackApp ==
    /\ process.pc = "validated"
    /\ bot' = [bot EXCEPT !.app = [token |-> load_config(environ).slack_bot_token,
                                   signing_secret |->
                                       load_config(environ).slack_signing_secret,
                                   process_before_response |-> TRUE]]
    /\ process' = [pc |-> "created"]
    /\ UNCHANGED <<now, api_key, call, result, email_only_results, environ, cache_vars>>

\* _register_handlers, then initialize sets _initialized
RegisterHandlers ==
    /\ process.pc = "created"
    /\ bot' = [bot EXCEPT !.handlers = Registrars, !._initialized = TRUE]
    /\ process' = [pc |-> "initialized"]
    /\ UNCHANGED <<now, api_key, call, result, email_only_results, environ, cache_vars>>

\* start, line 125
SetRunning ==
    /\ process.pc = "initialized"
    /\ bot' = [bot EXCEPT !.is_running = TRUE]
    /\ process' = [pc |-> "starting"]
    /\ UNCHANGED <<now, api_key, call, result, email_only_results, environ, cache_vars>>

\* start, lines 127-145: the socket-mode connection is opened with the app
\* token, or the failure is re-raised with is_running reset
StartSocketMode ==
    /\ process.pc = "starting"
    /\ IF environ.SLACK_APP_TOKEN = "valid"
       THEN /\ process' = [pc |-> "serving"]
            /\ UNCHANGED bot
       ELSE /\ process' = [pc |-> "raised"]
            /\ bot' = [bot EXCEPT !.is_running = FALSE]
    /\ UNCHANGED <<now, api_key, call, result, email_only_results, environ, cache_vars>>

\* the shutdown signal reaches main while the bot serves
KeyboardInterrupt ==
    /\ process.pc = "serving"
    /\ Idle
    /\ process' = [pc |-> "interrupted"]
    /\ UNCHANGED <<now, api_key, call, result, email_only_results, environ, bot,
                   cache_vars>>

\* main, lines 162-171: bot.stop() in the finally clause, then the exit code
MainReturns ==
    /\ process.pc \in {"raised", "interrupted"}
    /\ bot' = [bot EXCEPT !.is_running = FALSE]
    /\ process' = [pc |-> "exited",
                   exit_code |-> IF process.pc = "raised" THEN 1 ELSE 0]
    /\ UNCHANGED <<now, api_key, call, result, email_only_results, environ, cache_vars>>

\* an unhandled error of a listener is handed to global_error_handler
GlobalErrorHandler ==
    /\ process.pc = "serving"
    /\ Idle
    /\ \E error_msg \in ErrorTexts, body \in ErrorBodies, post_ok \in BOOLEAN :
        /\ call' = [op |-> "global_error_handler", error_msg |-> error_msg,
                    body |-> body, post_ok |-> post_ok]
        /\ result' = global_error_handler(error_msg, body, post_ok)
    /\ UNCHANGED <<now, api_key, email_only_results, boot_vars, cache_vars>>

InitBoot ==
    /\ call = [op |-> "none"]
    /\ result = None
    /\ email_only_results = [n \in CampaignNames |-> None]
    /\ now = 0
    /\ api_key = FALSE
    /\ environ \in Environs
    /\ bot = CoreMarketingBot
    /\ process = [pc |-> "main"]
    /\ SUGGESTION_CACHE = SUGGESTION_CACHE_at_import
    /\ clock = StartTime
    /\ background_tasks = <<>>
    /\ spawn_times = <<>>
    /\ completed = <<>>
NextBoot ==
    \/ ValidateConfiguration
    \/ CreateSlackApp
    \/ RegisterHandlers
    \/ SetRunning
    \/ StartSocketMode
    \/ KeyboardInterrupt
    \/ MainReturns
    \/ GlobalErrorHandler
    \/ Return
SpecBoot == InitBoot /\ [][NextBoot]_vars

(***************************************************************************)
(* The suggestion cache (handlers/core_clean_actions.py).  A clock reading *)
(* stored in the cache is tagged, Float(t), since the entry may also be    *)
(* None.  A background task is created by asyncio.create_task and runs     *)
(* later, whenever the event loop picks it, also while the caller of       *)
(* generate_ai_suggestions still holds the list it was given; a task runs  *)
(* in one step, since its only await wraps a call that blocks.             *)
(***************************************************************************)
Float(t) == [t |-> "float", v |-> t]

\* dict[key] = value
Put(d, key, value) == (key :> value) @@ d

\* a variant that answers from the fallback table, whatever the cache holds
generate_ai_suggestions_skipping_cache(cache, suggestion_type, count, current_time) ==
    [suggestions |-> get_fallback_suggestions(suggestion_type, count),
     cache |-> cache,
     spawned |-> <<[fn |-> "populate_cache_background",
                    suggestion_type |-> suggestion_type, count |-> count]>>]

\* lines 154-180: the suggestions returned, the cache afterwards, and the
\* background tasks created
generate_ai_suggestions(cache, suggestion_type, count, current_time) ==
    IF suggestion_type \in DOMAIN cache /\ cache[suggestion_type] # <<>>
    THEN LET cache_age == IF cache.last_refresh = None THEN 0 ELSE cache.last_refresh.v
             due == current_time - cache_age > RefreshInterval
         IN  [suggestions |-> Take(cache[suggestion_type], count),
              cache |-> IF due THEN Put(cache, "last_refresh", Float(current_time))
                        ELSE cache,
              spawned |-> IF due
                          THEN <<[fn |-> "refresh_ai_cache",
                                  suggestion_type |-> suggestion_type, count |-> count]>>
                          ELSE <<>>]
    ELSE [suggestions |-> get_fallback_suggestions(suggestion_type, count),
          cache |-> cache,
          spawned |-> <<[fn |-> "populate_cache_background",
                         suggestion_type |-> suggestion_type, count |-> count]>>]

\* a variant that adds the new suggestions to the entry
cache_after_task_extending(cache, task, suggestions, current_time) ==
    IF suggestions = <<>> THEN cache
    ELSE Put(cache, task.suggestion_type,
             Get(cache, task.suggestion_type, <<>>) \o suggestions)

\* a variant that stores whatever the service returned
cache_after_task_unguarded(cache, task, suggestions, current_time) ==
    Put(cache, task.suggestion_type, suggestions)

\* populate_cache_background (lines 182-191) and refresh_ai_cache (193-201),
\* given what the generative-text adapter returned
cache_after_task(cache, task, suggestions, current_time) ==
    IF suggestions = <<>> THEN cache
    ELSE IF task.fn = "populate_cache_background"
    THEN Put(Put(cache, task.suggestion_type, suggestions),
             "last_refresh", Float(current_time))
    ELSE Put(cache, task.suggestion_type, suggestions)

\* tags asked for: one that is cached at import and one that is not;
\* counts: none, and the handlers' default
CacheTags == {"campaign", "email"}
CacheCounts == {0, 5}

\* what chat.completions.create may do for a background task: raise, or
\* return a text of no, one or two suggestions
RefreshOutcomes ==
    {Raise("APIError"), Returned(<<>>), Returned(<<"a">>), Returned(<<"a", "\n", "b">>)}

\* time passes
AdvanceClock ==
    /\ Idle
    /\ \E t \in Instants : t > clock /\ clock' = t
    /\ UNCHANGED <<now, api_key, call, result, email_only_results, boot_vars,
                   SUGGESTION_CACHE, background_tasks, spawn_times, completed>>

\* one call of generate_ai_suggestions
GenerateAISuggestions ==
    /\ Idle
    /\ Len(spawn_times) < MaxSpawns
    /\ \E suggestion_type \in CacheTags, count \in CacheCounts :
        LET r == generate_ai_suggestions(SUGGESTION_CACHE, suggestion_type, count, clock)
        IN  /\ call' = [op |-> "generate_ai_suggestions",
                        suggestion_type |-> suggestion_type, count |-> count,
                        at |-> clock, cache |-> SUGGESTION_CACHE]
            /\ result' = Returned(r.suggestions)
            /\ SUGGESTION_CACHE' = r.cache
            /\ background_tasks' = background_tasks \o r.spawned
            /\ spawn_times' = spawn_times \o [k \in 1..Len(r.spawned) |-> clock]
    /\ UNCHANGED <<now, api_key, email_only_results, boot_vars, clock, completed>>

\* list.pop(i), as the list that is left
Without(s, i) == SubSeq(s, 1, i - 1) \o SubSeq(s, i + 1, Len(s))

\* the event loop runs one of the background tasks
RunBackgroundTask ==
    /\ background_tasks # <<>>
    /\ \E i \in 1..Len(background_tasks) :
        LET task == background_tasks[i]
        IN  \E api \in IF api_key THEN RefreshOutcomes ELSE {None} :
              LET suggestions == generate_campaign_suggestions(
                                     api_key, task.suggestion_type, task.count, api)
              IN  /\ SUGGESTION_CACHE' =
                         cache_after_task(SUGGESTION_CACHE, task, suggestions, clock)
                  /\ background_tasks' = Without(background_tasks, i)
                  /\ completed' = Append(completed,
                                         [task |-> task,
                                          at |-> clock,
                                          failed |-> ~api_key \/ IsRaise(api),
                                          suggestions |-> suggestions])
    /\ UNCHANGED <<now, api_key, call, result, email_only_results, boot_vars, clock,
                   spawn_times>>

InitCache == InitBase /\ now = 0 /\ api_key \in BOOLEAN
NextCache ==
    \/ AdvanceClock
    \/ GenerateAISuggestions
    \/ RunBackgroundTask
    \/ Return
SpecCache == InitCache /\ [][NextCache]_vars

(***************************************************************************)
(* The message formatter (utils/slack_formatting.py).  A text is the list  *)
(* of its lines; a line is a record of the parts its f-string puts         *)
(* together.  A link name and a URL are sequences of pieces, so that       *)
(* "X in name", name.replace(X, "") and url.startswith(X) are computed on  *)
(* the pieces.  The emoji characters are written as their short codes.     *)
(***************************************************************************)
\* the prefixes name.replace(..., "") removes
EmojiPrefixes == {":bell: ", ":page_facing_up: ", ":clipboard: ", ":spiral_calendar_pad: "}

\* "word in name"
Contains(name, word) == \E i \in 1..Len(name) : name[i] = word

\* name.replace(prefix, "") for the four prefixes
RECURSIVE clean_name_of(_)
clean_name_of(name) ==
    IF name = <<>> THEN <<>>
    ELSE (IF Head(name) \in EmojiPrefixes THEN <<>> ELSE <<Head(name)>>)
         \o clean_name_of(Tail(name))

\* the emoji of a link, by the content type its name shows
emoji_of(name) ==
    IF Contains(name, "Brief") \/ Contains(name, "Doc") THEN ":page_facing_up:"
    ELSE IF Contains(name, "Monday") \/ Contains(name, "Tickets") THEN ":clipboard:"
    ELSE IF Contains(name, "Calendar") THEN ":spiral_calendar_pad:"
    ELSE IF Contains(name, "Reminder") THEN ":bell:"
    ELSE ":link:"

\* a variant that takes every URL that is not empty
valid_url_nonempty(url) == url # <<>>

\* url and url != "#" and url.startswith(("http://", "https://"))
valid_url(url) ==
    /\ url # <<>>
    /\ url # <<"#">>
    /\ Head(url) \in {"http://", "https://"}

\* the loop of resource_links: f"   {emoji} <{url}|{clean_name}>" for a valid
\* URL, f"   {emoji} {clean_name}" otherwise
RECURSIVE resource_lines(_)
resource_lines(links) ==
    IF links = <<>> THEN <<>>
    ELSE LET name == Head(links).name
             url == Head(links).url
         IN  <<IF valid_url(url)
               THEN [kind |-> "link", emoji |-> emoji_of(name), url |-> url,
                     text |-> clean_name_of(name)]
               ELSE [kind |-> "plain", emoji |-> emoji_of(name),
                     text |-> clean_name_of(name)]>>
             \o resource_lines(Tail(links))

\* resource_links: links is the dict as the list of its items, in order
resource_links(links) ==
    IF links = <<>> THEN <<>>
    ELSE <<[kind |-> "resources_header"]>> \o resource_lines(links)

\* a variant that shows every task and counts none as left out
RECURSIVE plain_task_lines(_)
plain_task_lines(tasks) ==
    IF tasks = <<>> THEN <<>>
    ELSE <<[kind |-> "task", name |-> Get(Head(tasks), "name", "Task"),
            assignee |-> "*" \o Get(Head(tasks), "assignee", "Assigned") \o "*"]>>
         \o plain_task_lines(Tail(tasks))

campaign_success_message_unabridged(name, links, workflow_tasks) ==
    <<[kind |-> "status", emoji |-> ":white_check_mark:",
       message |-> <<"Campaign Created: ", name>>],
      [kind |-> "blank"]>>
    \o (IF links # <<>>
        THEN <<[kind |-> "resources", lines |-> resource_links(links)],
               [kind |-> "blank"]>>
        ELSE <<>>)
    \o (IF workflow_tasks # <<>>
        THEN <<[kind |-> "workflow_header"]>> \o plain_task_lines(workflow_tasks)
        ELSE <<>>)

\* campaign_success_message: the lines that "\n".join puts together
campaign_success_message(name, links, workflow_tasks) ==
    <<[kind |-> "status", emoji |-> ":white_check_mark:",
       message |-> <<"Campaign Created: ", name>>],
      [kind |-> "blank"]>>
    \o (IF links # <<>>
        THEN <<[kind |-> "resources", lines |-> resource_links(links)],
               [kind |-> "blank"]>>
        ELSE <<>>)
    \o (IF workflow_tasks # <<>>
        THEN <<[kind |-> "workflow_header"]>>
             \o plain_task_lines(Take(workflow_tasks, 3))
             \o (IF Len(workflow_tasks) > 3
                 THEN <<[kind |-> "more", count |-> Len(workflow_tasks) - 3]>>
                 ELSE <<>>)
        ELSE <<>>)

\* inputs of the formatter
LinkNames ==
    {<<"Brief", " ", "Doc">>,
     <<"Monday", ".com ", "Tickets", " (6 tasks)">>,
     <<"Google ", "Calendar", " Event">>,
     <<"Calendar", " ", "Reminder", "s (2 scheduled)">>,
     <<":bell: ", "Reminder">>,
     <<"Website">>}
LinkUrls ==
    {<<>>, <<"#">>, <<"#", "top">>, <<"http://", "fetch.com">>,
     <<"https://", "fetch.com">>, <<"ftp://", "fetch.com">>}
LinkItems == [name : LinkNames, url : LinkUrls]
LinksOfLen(n) ==
    {l \in [1..n -> LinkItems] :
        \A i, j \in 1..n : i # j => l[i].name # l[j].name}
Links == UNION {LinksOfLen(n) : n \in 0..MaxLinks}

TrackerTasks ==
    {[name |-> "Deliverable Design", assignee |-> "Kelly Redding"],
     [name |-> "EDEN Review", assignee |-> "Karen or Kate"],
     [name |-> "Custom: a", assignee |-> "To Be Assigned"]}
LooseTasks ==
    {[name |-> "Deliverable Design", assignee |-> "Kelly Redding"],
     [name |-> "EDEN Review"],
     [assignee |-> "To Be Assigned"]}
TaskLists(pool) == UNION {[1..n -> pool] : n \in 0..MaxTasks}

\* one call of SlackFormatter.resource_links
ResourceLinks ==
    /\ Idle
    /\ \E links \in Links :
        /\ call' = [op |-> "resource_links", links |-> links]
        /\ result' = resource_links(links)
    /\ UNCHANGED <<now, api_key, email_only_results, boot_vars, cache_vars>>

\* one call of SlackFormatter.campaign_success_message
CampaignSuccessMessage ==
    /\ Idle
    /\ \E name \in EventNames, links \in LinksOfLen(0) \cup LinksOfLen(1),
          workflow_tasks \in TaskLists(LooseTasks) :
        /\ call' = [op |-> "campaign_success_message", name |-> name,
                    links |-> links, workflow_tasks |-> workflow_tasks]
        /\ result' = campaign_success_message(name, links, workflow_tasks)
    /\ UNCHANGED <<now, api_key, email_only_results, boot_vars, cache_vars>>

\* one call of SlackFormatter.campaign_success_message_with_mentions
CampaignSuccessMessageWithMentions ==
    /\ Idle
    /\ \E name \in EventNames, directory \in SUBSET TeamEmails,
          workflow_tasks \in TaskLists(TrackerTasks) :
        /\ call' = [op |-> "campaign_success_message_with_mentions", name |-> name,
                    directory |-> directory, workflow_tasks |-> workflow_tasks]
        /\ result' = campaign_success_message_with_mentions(directory, name, <<>>,
                                                            workflow_tasks)
    /\ UNCHANGED <<now, api_key, email_only_results, boot_vars, cache_vars>>

InitFormatter == InitBase /\ now = 0 /\ api_key = FALSE
NextFormatter ==
    \/ ResourceLinks
    \/ CampaignSuccessMessage
    \/ CampaignSuccessMessageWithMentions
    \/ Return
SpecFormatter == InitFormatter /\ [][NextFormatter]_vars

(***************************************************************************)
(* Posting with a fallback, and the campaign form that uses it             *)
(* (handlers/core_clean_actions.py).  A run is the list of things done and *)
(* the exception that left it, as for the unified submission.              *)
(***************************************************************************)
type_names ==
    [physical_event |-> "Physical Event Campaign",
     email_only |-> "Email-Only Campaign",
     email |-> "Email Campaign",
     social |-> "Social Media Campaign",
     content |-> "Content Marketing Campaign"]

get_campaign_type_display_name(campaign_type) ==
    Get(type_names, campaign_type, "Campaign")

\* lines 776-812: the except branch is never entered, since nothing in the
\* try block raises
handle_campaign_submission(body, posts) ==
    LET user_id == body.user.id
        values == body.view.state.values
        name == form_value(values, "campaign_name", "name_input", "value").v
        goal == form_value(values, "campaign_goal", "goal_input", "value").v
        target == form_value(values, "campaign_target", "target_input", "value").v
        campaign_type ==
            Get(Get(Get(Get(values, "campaign_type", <<>>), "type_select", <<>>),
                    "selected_option", <<>>),
                "value", "email_only")
        campaign_result == process_campaign_with_workflow_templates(
                               name, goal, target, campaign_type)
        message ==
            [created |-> get_campaign_type_display_name(campaign_type),
             name |-> name, goal |-> goal, target |-> target,
             tasks |-> IF campaign_type = "physical_event"
                       THEN <<campaign_result.event_planning_tasks,
                              campaign_result.email_campaign_tasks>>
                       ELSE <<campaign_result.total_tasks>>]
    IN  [events |-> <<Ack>> \o post_to_channel_safe(CHANNELS.CAMPAIGNS, message,
                                                    user_id, posts),
         exc |-> "none"]

\* the calls of post_to_channel_safe: to a channel, and to the user's own
\* conversation (line 812)
PostChannels == {CHANNELS.CAMPAIGNS} \cup Requestors
PostTexts == {"slides_created", "Error creating campaign. Please try again."}
PostOutcomes == [1..2 -> BOOLEAN]

\* one call of post_to_channel_safe
PostToChannelSafe ==
    /\ Idle
    /\ \E channel \in PostChannels, text \in PostTexts, user_id \in Requestors,
          posts \in PostOutcomes :
        /\ call' = [op |-> "post_to_channel_safe", channel |-> channel,
                    text |-> text, user_id |-> user_id, posts |-> posts]
        /\ result' = [events |-> post_to_channel_safe(channel, text, user_id, posts),
                      exc |-> "none"]
    /\ UNCHANGED <<now, api_key, email_only_results, boot_vars, cache_vars>>

\* one submission of the campaign form
HandleCampaignSubmission ==
    /\ Idle
    /\ \E name \in CampaignNames, goal \in Goals, target \in Targets,
          type_block \in {<<>>} \cup
              {("campaign_type" :> ("type_select" :> ("selected_option" :>
                    ("value" :> t)))) : t \in CampaignTypes},
          user_id \in Requestors, posts \in PostOutcomes :
        LET values == ("campaign_name" :> ("name_input" :> ("value" :> Str(name))))
                      @@ ("campaign_goal" :> ("goal_input" :> ("value" :> Str(goal))))
                      @@ ("campaign_target" :>
                             ("target_input" :> ("value" :> Str(target))))
                      @@ type_block
            body == [user |-> [id |-> user_id],
                     view |-> [state |-> [values |-> values]]]
        IN  /\ call' = [op |-> "handle_campaign_submission", body |-> body,
                        user_id |-> user_id, channel |-> CHANNELS.CAMPAIGNS,
                        posts |-> posts]
            /\ result' = handle_campaign_submission(body, posts)
    /\ UNCHANGED <<now, api_key, email_only_results, boot_vars, cache_vars>>

InitPost == InitBase /\ now = 0 /\ api_key = FALSE
NextPost ==
    \/ PostToChannelSafe
    \/ HandleCampaignSubmission
    \/ Return
SpecPost == InitPost /\ [][NextPost]_vars

(***************************************************************************)
(* Properties                                                              *)
(***************************************************************************)
Dispatched == call.op = "process_campaign_with_workflow_templates"
ParentKeys == {"event_planning_parent", "email_campaign_parent"}

\* C1: the dispatcher never raises, whatever the tag; it returns exactly two
\* parent records (event-planning and email) for the tag "physical_event"
\* and exactly one (email) for every other tag.
C1_ParentCount ==
    Dispatched =>
        /\ ~IsRaise(result)
        /\ IF call.campaign_type = "physical_event"
           THEN /\ DOMAIN result \cap ParentKeys = ParentKeys
                /\ result.total_parents = 2
           ELSE /\ DOMAIN result \cap ParentKeys = {"email_campaign_parent"}
                /\ result.total_parents = 1

\* an unknown tag and the physical-event tag have both been dispatched
C1_Witness ==
    /\ Dispatched
    /\ call.campaign_type = "physical_event"
    /\ result.total_parents = 2
    /\ \E n \in CampaignNames : email_only_results[n] # None

EmailTaskOrder ==
    <<"Email Template Build", "Email Content Creation & Copy",
      "Email Invitation Scheduling", "Attendee Communication Setup",
      "RSVP Management System", "Email Campaign QA & Send">>

\* C2: on the email-only path the single parent is named
\* "Email Campaign: " + N, its task list has exactly 6 entries in the fixed
\* order, each assigned to "Jheryl", and the reported task count is 6.
C2_EmailOnlyTemplate ==
    (Dispatched /\ call.campaign_type # "physical_event") =>
        LET parent == result.email_campaign_parent
        IN  /\ result.total_parents = 1
            /\ parent.name = "Email Campaign: " \o call.name
            /\ Len(parent.tasks) = 6
            /\ [k \in 1..Len(parent.tasks) |-> parent.tasks[k].name] = EmailTaskOrder
            /\ \A k \in 1..Len(parent.tasks) :
                  parent.tasks[k].assignee # "" /\ parent.tasks[k].assignee = "Jheryl"
            /\ parent.total_tasks = 6
            /\ result.total_tasks = 6

C2_Witness ==
    /\ Dispatched
    /\ call.campaign_type = "email_only"
    /\ call.name = "Fall Sale"
    /\ result.email_campaign_parent.name = "Email Campaign: Fall Sale"
    /\ result.total_tasks = 6

\* C3: on the physical-event path the parent "Event Planning: " + N has
\* exactly 5 tasks, all owned by "Kate or Karen"; the parent
\* "Email Campaign: " + N has the task list of an email-only dispatch of the
\* same name; the reported counts are 5 and 6.
C3_PhysicalEventTemplate ==
    (Dispatched /\ call.campaign_type = "physical_event") =>
        LET event == result.event_planning_parent
            email == result.email_campaign_parent
        IN  /\ event.name = "Event Planning: " \o call.name
            /\ Len(event.tasks) = 5
            /\ \A k \in 1..Len(event.tasks) : event.tasks[k].assignee = "Kate or Karen"
            /\ email.name = "Email Campaign: " \o call.name
            /\ email_only_results[call.name] # None =>
                  email.tasks = email_only_results[call.name].email_campaign_parent.tasks
            /\ [k \in 1..Len(email.tasks) |-> email.tasks[k].name] = EmailTaskOrder
            /\ result.event_planning_tasks = 5
            /\ result.email_campaign_tasks = 6

C3_Witness ==
    /\ Dispatched
    /\ call.campaign_type = "physical_event"
    /\ call.name = "Block Party"
    /\ email_only_results["Block Party"] # None
    /\ result.event_planning_parent.name = "Event Planning: Block Party"

\* C4: create_physical_event_campaign returns an event-planning ticket with
\* 5 tasks and an email ticket with 6 tasks, the list
\* create_email_only_campaign returns for the same name.
C4_AdapterFollowsTemplates ==
    call.op = "create_physical_event_campaign" =>
        /\ Len(result.event_ticket.tasks) = 5
        /\ Len(result.email_ticket.tasks) = 6
        /\ \A goal \in Goals, target \in Targets :
              result.email_ticket.tasks =
                  create_email_only_campaign(call.name, goal, target).email_ticket.tasks

\* dates as text and back
Days == 0..364
IsoTable == [d \in Days |-> isoformat(d)]
Parseable(x) == x # None /\ \E d \in Days : IsoTable[d] = x.v
DayOf(iso) == CHOOSE d \in Days : IsoTable[d] = iso

UnifiedCalled == call.op = "create_unified_campaign_workflow"
SuppliedDates == Get(call.campaign_data, "event_dates", Str(""))
StandardNames == <<"Deliverable Design", "Creative Review", "EDEN Review">>

\* the day offset of the subtask at position k of the list
OffsetAt(k) == IF k = 1 THEN 14 ELSE IF k = 2 THEN 12 ELSE IF k = 3 THEN 10 ELSE 7

\* every subtask of the list is due OffsetAt days before day D
DueFrom(subtasks, D) ==
    \A k \in 1..Len(subtasks) : DayOf(subtasks[k].due_date) = D - OffsetAt(k)

\* C5: in one unified-workflow result the design, creative review and
\* approval review subtasks come first, in that order, due 14, 12 and 10
\* days before one date D, and every later (deliverable) subtask is due 7
\* days before the same D.
C5_DueDateOffsets ==
    (UnifiedCalled /\ result # None) =>
        /\ Len(result.subtasks) >= 3
        /\ [k \in 1..3 |-> result.subtasks[k].name] = StandardNames
        /\ \E D \in {DayOf(result.subtasks[1].due_date) + 14} :
              DueFrom(result.subtasks, D)

\* deliverables were given, and the due dates lie in two months
C5_Witness ==
    /\ UnifiedCalled
    /\ result # None
    /\ Len(result.subtasks) = 5
    /\ result.subtasks[1].due_date = "2025-01-23"
    /\ result.subtasks[3].due_date = "2025-01-27"
    /\ result.subtasks[5].due_date = "2025-01-30"

\* C6: with an empty, missing, None or unparseable event date the unified
\* workflow returns a record, not the failure signal, holding the parent and
\* the subtask list with due dates counted from D = now + 30 days.
C6_DefaultReferenceDate ==
    (UnifiedCalled /\ ~Parseable(SuppliedDates)) =>
        /\ result # None
        /\ result.parent_task.type = "parent_task"
        /\ Len(result.subtasks) >= 3
        /\ DueFrom(result.subtasks, call.at + 30)

\* the event date is missing from the dict, and time has passed
C6_Witness ==
    /\ UnifiedCalled
    /\ "event_dates" \notin DOMAIN call.campaign_data
    /\ call.at = 2
    /\ result # None
    /\ result.subtasks[1].due_date = "2025-01-19"

\* C7: when a parseable event date is supplied, the due dates are counted
\* from that date.
C7_SuppliedReferenceDate ==
    (UnifiedCalled /\ Parseable(SuppliedDates)) =>
        /\ result # None
        /\ DueFrom(result.subtasks, DayOf(SuppliedDates.v))

\* the deliverables text of the call ('' when missing or None)
SuppliedText ==
    LET x == Get(call.campaign_data, "deliverables", Str(<<>>))
    IN  IF x = None THEN <<>> ELSE x.v

\* lines of a text by position: a line starts at 1 and after every newline
LineStarts(s) == {i \in 1..(Len(s) + 1) : i = 1 \/ s[i - 1] = "\n"}
\* the positions of a line's characters that are not whitespace
Ink(s, i) ==
    {j \in i..Len(s) : s[j] \notin Whitespace /\ \A m \in i..j : s[m] # "\n"}
NonBlankStarts(s) == {i \in LineStarts(s) : Ink(s, i) # {}}
MinOf(S) == CHOOSE x \in S : \A y \in S : x <= y
MaxOf(S) == CHOOSE x \in S : \A y \in S : y <= x
\* the k-th non-blank line, without the whitespace around it
NonBlankLine(s, k) ==
    LET i == CHOOSE x \in NonBlankStarts(s) :
                 Cardinality({y \in NonBlankStarts(s) : y < x}) = k - 1
    IN  SubSeq(s, MinOf(Ink(s, i)), MaxOf(Ink(s, i)))

\* C8: after the 3 standard subtasks comes exactly one ad hoc subtask per
\* non-blank line of the deliverables text, in line order; each depends on
\* exactly the approval review; the standard subtasks form a chain.
C8_OneSubtaskPerLine ==
    (UnifiedCalled /\ result # None) =>
        LET subtasks == result.subtasks
            n == Cardinality(NonBlankStarts(SuppliedText))
        IN  /\ Len(subtasks) = 3 + n
            /\ [k \in 1..3 |-> subtasks[k].name] = StandardNames
            /\ subtasks[1].dependencies = <<>>
            /\ subtasks[2].dependencies = <<subtasks[1].name>>
            /\ subtasks[3].dependencies = <<subtasks[2].name>>
            /\ \A k \in 1..n :
                  /\ subtasks[3 + k].name =
                         "Custom: " \o Join(NonBlankLine(SuppliedText, k))
                  /\ subtasks[3 + k].dependencies = <<"EDEN Review">>

\* two items with an empty line between them
C8_Witness ==
    /\ UnifiedCalled
    /\ result # None
    /\ SuppliedText = <<"b", "\n", "\n", "a">>
    /\ Len(result.subtasks) = 5
    /\ result.subtasks[4].name = "Custom: b"
    /\ result.subtasks[5].name = "Custom: a"

Newlines(s) == {i \in 1..Len(s) : s[i] = "\n"}
\* the text is two lines, neither of them empty
TwoNonEmptyLines(s) ==
    /\ Cardinality(Newlines(s)) = 1
    /\ \A i \in Newlines(s) : 1 < i /\ i < Len(s)
\* the text is two lines, neither of them blank
TwoNonBlankLines(s) ==
    /\ Cardinality(Newlines(s)) = 1
    /\ Cardinality(NonBlankStarts(s)) = 2

SubtasksUnderParent ==
    Cardinality({k \in 1..Len(result.subtasks) :
                    result.subtasks[k].parent_id = result.parent_task.task_id})

\* C9 as stated: a deliverables text of exactly two non-empty lines yields 2
\* ad hoc subtasks beyond the 3 standard ones and 4 subtasks in all.
C9_TwoLinesFourSubtasks ==
    (UnifiedCalled /\ TwoNonEmptyLines(SuppliedText)) =>
        /\ result # None
        /\ Len(result.subtasks) - 3 = 2
        /\ SubtasksUnderParent = 4

\* C9 amended: a deliverables text of exactly two non-blank lines yields 2
\* ad hoc subtasks beyond the 3 standard ones, 5 subtasks under the parent
\* in all, and a reported total_tasks (which counts the parent) of 6.
C9_TwoLinesFiveSubtasks ==
    (UnifiedCalled /\ TwoNonBlankLines(SuppliedText)) =>
        /\ result # None
        /\ Len(result.subtasks) - 3 = 2
        /\ SubtasksUnderParent = 5
        /\ result.total_tasks = 6

C9_Witness ==
    /\ UnifiedCalled
    /\ SuppliedText = <<"a", "b", "\n", "b">>
    /\ result # None
    /\ Len(result.subtasks) = 5
    /\ result.subtasks[4].name = "Custom: ab"

RecognizedTags == {"event", "slides", "campaign", "email", "social", "content"}

\* list has exactly count items, item i (0-based) being base[i mod len(base)]
Cycled(list, base, count) ==
    /\ Len(list) = count
    /\ \A i \in 0..(count - 1) : list[i + 1] = base[(i % Len(base)) + 1]

\* C10: with the service unconfigured, generate_campaign_suggestions returns
\* for a recognized tag exactly count items, cycling the fallback list of
\* the tag; so does the handlers' get_fallback_suggestions.
C10_FallbackCycles ==
    /\ (/\ call.op = "generate_campaign_suggestions"
        /\ ~call.client
        /\ call.campaign_type \in RecognizedTags) =>
            Cycled(result.value,
                   Get(fallbacks_ai_service, call.campaign_type,
                       fallbacks_ai_service["email"]),
                   call.count)
    /\ (/\ call.op = "get_fallback_suggestions"
        /\ call.suggestion_type \in RecognizedTags) =>
            Cycled(result.value,
                   Get(fallbacks_handlers, call.suggestion_type,
                       fallbacks_handlers["campaign"]),
                   call.count)

\* more items asked for than the list holds
C10_Witness ==
    /\ call.op = "generate_campaign_suggestions"
    /\ ~call.client
    /\ call.campaign_type = "social"
    /\ call.count = 7
    /\ Len(result.value) = 7
    /\ result.value[6] = "#ScanToWin Challenge"
    /\ result.value[7] = "Receipt Art Contest"

\* the generative-text call failed, or was never made for want of a client
FallbackSubstituted ==
    /\ call.op = "generate_campaign_suggestions"
    /\ (~call.client \/ IsRaise(call.api))

Items(list) == {list[i] : i \in 1..Len(list)}

\* C11: when the generative-text call fails, the suggestions substituted for
\* a recognized tag all come from the fallback list stored under that very
\* tag, in the adapter's table and in the handlers' table alike.
C11_FallbackOfSameTag ==
    /\ (FallbackSubstituted /\ call.campaign_type \in RecognizedTags) =>
          /\ call.campaign_type \in DOMAIN fallbacks_ai_service
          /\ Items(result.value) \subseteq
                Items(fallbacks_ai_service[call.campaign_type])
    /\ (/\ call.op = "get_fallback_suggestions"
        /\ call.suggestion_type \in RecognizedTags) =>
          /\ call.suggestion_type \in DOMAIN fallbacks_handlers
          /\ Items(result.value) \subseteq
                Items(fallbacks_handlers[call.suggestion_type])

Navigated == call.op = "handle_modal_navigation"
Methods(calls) == {calls[k].method : k \in 1..Len(calls)}

C13_DesignatedFallback ==
    Navigated =>
      LET type == call.navigation_type
          body == call.body
      IN  /\ (type = "update" /\ ~has_view_id(body) /\ has_trigger_id(body)) =>
                /\ Len(result.calls) >= 1
                /\ result.calls[1].method = "views_open"
                /\ result.calls[1].target = body.trigger_id
          /\ (type \in {"open", "push"} /\ ~has_trigger_id(body) /\ has_view_id(body)) =>
                /\ Len(result.calls) >= 1
                /\ result.calls[1].method = "views_update"
                /\ result.calls[1].target = body.view.id
          /\ (~has_trigger_id(body) /\ ~has_view_id(body)) =>
                /\ result.calls = <<>>
                /\ result.exc # "none"

\* an update on a body without a view, answered by a successful open
C13_Witness ==
    /\ Navigated
    /\ call.navigation_type = "update"
    /\ "view" \notin DOMAIN call.body
    /\ result = [calls |-> <<[method |-> "views_open", target |-> "T1", ok |-> TRUE]>>,
                 exc |-> "none"]

Submitted == call.op = "handle_unified_campaign_submit"
Acks(events) == {k \in 1..Len(events) : events[k].kind = "ack"}
Work(events) == {k \in 1..Len(events) : events[k].kind \in {"adapter", "client"}}

\* C14: on every payload the unified-submission handler acknowledges exactly
\* once, with or without errors, and before its first adapter or client call.
C14_AcknowledgedOnceFirst ==
    Submitted =>
        /\ Cardinality(Acks(result.events)) = 1
        /\ \A a \in Acks(result.events), w \in Work(result.events) : a < w

\* the form of the submission, and the required fields it lacks: a text
\* field that is null or blank after trimming, a date that is null or empty
SubmittedForm == extract_campaign_form_data(call.body.view.state.values)
MissingText(x) == IF x = None THEN TRUE ELSE Strip(x.v) = <<>>
MissingFields ==
    {f \in {"event_name", "location"} : MissingText(SubmittedForm[f])}
    \cup {f \in {"event_dates"} : ~Truthy(SubmittedForm[f])}

\* C15: a submission lacking required fields is acknowledged with errors
\* keyed by exactly the missing fields, and nothing else is done; a complete
\* submission is acknowledged without errors and the workflow runs.
C15_FieldErrors ==
    Submitted =>
        /\ MissingFields # {} =>
              /\ Len(result.events) = 1
              /\ result.events[1].kind = "ack"
              /\ result.events[1].response_action = "errors"
              /\ DOMAIN result.events[1].errors = MissingFields
              /\ result.exc = "none"
        /\ MissingFields = {} =>
              /\ result.events[1] = Ack
              /\ Len(result.events) >= 2
              /\ result.events[2].kind = "adapter"

\* the form passed validation and the workflow was started
WorkflowRan == Submitted /\ Len(result.events) >= 1 /\ result.events[1] = Ack
AdapterFailures ==
    {k \in 1..Len(result.events) :
        /\ result.events[k].kind = "adapter"
        /\ (IsRaise(result.events[k].outcome)
            \/ result.events[k].outcome = Returned(None)
            \/ result.events[k].outcome = None)}
Posted(template) ==
    \E k \in 1..Len(result.events) :
        /\ result.events[k].kind = "client"
        /\ result.events[k].method = "chat_postMessage"
        /\ template \in DOMAIN result.events[k].text
FailureMessagePosted == Posted("error")
SuccessPosted == Posted("template") \/ Posted("from")

\* C20: when an adapter call of the unified submission fails, by its failure
\* signal or by raising, the handler still returns and posts a failure
\* message to the user, and no success confirmation is posted unless the
\* tracker workflow was created.
C20_FailureReported ==
    WorkflowRan =>
        /\ result.exc = "none"
        /\ AdapterFailures # {} => (FailureMessagePosted /\ ~SuccessPosted)
        /\ SuccessPosted =>
              \E k \in 1..Len(result.events) :
                  /\ result.events[k].kind = "adapter"
                  /\ result.events[k].service = "monday"
                  /\ result.events[k].outcome # None

ErrorHandled == call.op = "global_error_handler"
ErrorWords == {lower(call.error_msg[k]) : k \in 1..Len(call.error_msg)}
ActingUser == Get(Get(call.body, "user", <<>>), "id", "unknown")
OneApology ==
    /\ Len(result.events) = 1
    /\ result.events[1].kind = "client"
    /\ result.events[1].method = "chat_postMessage"
    /\ result.events[1].target = ActingUser
    /\ result.events[1].text = Apology

\* C16 as stated: the handler never raises; an error carrying the code of
\* an expired interaction token, of an invalid authentication or of a rate
\* limit is met with silence, every other error with one apology.
C16_RateLimitSilenced ==
    ErrorHandled =>
        /\ result.exc = "none"
        /\ IF ErrorWords \cap {"expired_trigger_id", "invalid_auth", "ratelimited"} # {}
           THEN result.events = <<>>
           ELSE OneApology

\* C16, amended: the handler never raises; an error whose text contains
\* expired_trigger_id, invalid_auth or push_limit_reached (in any case) is
\* met with silence; every other error, a rate limit included, with exactly
\* one apology posted to the user of the body, whether or not the post
\* succeeds.
C16_ListedCodesSilenced ==
    ErrorHandled =>
        /\ result.exc = "none"
        /\ IF ErrorWords \cap {"expired_trigger_id", "invalid_auth", "push_limit_reached"}
                # {}
           THEN result.events = <<>>
           ELSE OneApology

\* a rate-limit error, apologised for by a post that fails
C16_Witness ==
    /\ ErrorHandled
    /\ call.error_msg = <<"The server responded with:", "ratelimited">>
    /\ ~call.post_ok
    /\ result.exc = "none"
    /\ OneApology
    /\ ~result.events[1].ok

MissingCredential ==
    \E k \in {"SLACK_BOT_TOKEN", "SLACK_SIGNING_SECRET", "SLACK_APP_TOKEN"} :
        environ[k] = ""
RejectedCredential ==
    \E k \in {"SLACK_BOT_TOKEN", "SLACK_SIGNING_SECRET", "SLACK_APP_TOKEN"} :
        environ[k] = "invalid"

C18_SpawnsThrottled ==
    \A i, j \in 1..Len(spawn_times) :
        i < j => spawn_times[j] - spawn_times[i] >= RefreshInterval

WorkflowCalled == call.op \in {"create_unified_campaign_workflow", "create_campaign_board"}
GivenName == Get(call.campaign_data, "event_name", "Untitled Campaign")
GivenDeliverables == Get(call.campaign_data, "deliverables", Str(<<>>))

\* C19: the unified workflow never raises; it returns None, or a record
\* holding the parent task, the board's identifier and URL, and the whole
\* subtask list - the three standard subtasks and one per non-blank line of
\* the deliverables - each under that parent; a name for which the parent
\* cannot be created, or deliverables that cannot be read, give None.
C19_AllOrNothing ==
    WorkflowCalled =>
        /\ ~IsRaise(result)
        /\ GivenName \in UnhashableNames => result = None
        /\ (GivenDeliverables.t = "list" /\ GivenDeliverables.v # <<>>) => result = None
        /\ result # None =>
              /\ {"board_id", "board_url", "parent_task", "subtasks"}
                    \subseteq DOMAIN result
              /\ result.parent_task.type = "parent_task"
              /\ result.board_url.board_id = result.board_id
              /\ Len(result.subtasks) = 3 + Cardinality(NonBlankStarts(SuppliedText))
              /\ [k \in 1..3 |-> result.subtasks[k].name] = StandardNames
              /\ \A k \in 1..Len(result.subtasks) :
                    result.subtasks[k].parent_id = result.parent_task.task_id
              /\ result.total_tasks = Len(result.subtasks) + 1

\* the legacy entry is given a list as the name: no parent, no subtasks
C19_Witness ==
    /\ call.op = "create_campaign_board"
    /\ call.campaign_name \in UnhashableNames
    /\ GivenName = call.campaign_name
    /\ GivenDeliverables = Str(<<"a", "\n", "b">>)
    /\ result = None

\* the formatter operation whose output is in result
Formatted(op) == call.op = op
MinOf2(a, b) == IF a < b THEN a ELSE b
LinesOfKind(lines, kind) == SelectSeq(lines, LAMBDA l : l.kind = kind)

\* C21: for a workflow of n subtasks the confirmation message lists exactly
\* the first min(3, n) subtasks, in their original order, and has a "more"
\* suffix if and only if n > 3, whose count is then n - 3.  This holds for
\* the message with plain names and for the message with mentions.
C21_FirstThreeThenMore ==
    /\ Formatted("campaign_success_message") =>
          LET tasks == call.workflow_tasks
              n == Len(tasks)
              shown == LinesOfKind(result, "task")
              more == LinesOfKind(result, "more")
          IN  /\ Len(shown) = MinOf2(3, n)
              /\ \A i \in 1..Len(shown) :
                    shown[i].name = Get(tasks[i], "name", "Task")
              /\ (more # <<>>) <=> (n > 3)
              /\ n > 3 => more = <<[kind |-> "more", count |-> n - 3]>>
    /\ Formatted("campaign_success_message_with_mentions") =>
          LET tasks == call.workflow_tasks
              n == Len(tasks)
              shown == result.text.tasks
          IN  /\ Len(shown) = MinOf2(3, n)
              /\ \A i \in 1..Len(shown) : shown[i].name = tasks[i].name
              /\ (result.text.more # 0) <=> (n > 3)
              /\ n > 3 => result.text.more = n - 3

\* a message with mentions for five subtasks: three shown, two more
C21_Witness ==
    /\ Formatted("campaign_success_message_with_mentions")
    /\ Len(call.workflow_tasks) = 5
    /\ Len(result.text.tasks) = 3
    /\ result.text.more = 2

\* the URL starts with http:// or https:// and has more than the placeholder
RealHttpUrl(url) ==
    IF url = <<>> THEN FALSE ELSE url[1] \in {"http://", "https://"}

\* C22: in the resource section every supplied link produces exactly one
\* line, after the section's heading; the line is a clickable link only when
\* the URL is a real http(s) URL, and it is plain text, the name only,
\* whenever the URL is the placeholder "#", empty, or not http(s).
C22_OneLinePerLink ==
    Formatted("resource_links") =>
        LET links == call.links
        IN  IF links = <<>> THEN result = <<>>
            ELSE /\ Len(result) = Len(links) + 1
                 /\ result[1].kind = "resources_header"
                 /\ \A i \in 1..Len(links) :
                       LET line == result[i + 1]
                           url == links[i].url
                       IN  /\ line.kind \in {"link", "plain"}
                           /\ \A k \in 1..Len(line.text) :
                                 \E j \in 1..Len(links[i].name) :
                                     line.text[k] = links[i].name[j]
                           /\ line.kind = "link" =>
                                 RealHttpUrl(url) /\ line.url = url
                           /\ ~RealHttpUrl(url) =>
                                 /\ line.kind = "plain"
                                 /\ DOMAIN line = {"kind", "emoji", "text"}

\* a resource section with a real link and a placeholder
C22_Witness ==
    /\ Formatted("resource_links")
    /\ Len(call.links) = 2
    /\ call.links[1].url = <<"https://", "fetch.com">>
    /\ call.links[2].url = <<"#">>
    /\ result[2].kind = "link"
    /\ result[3].kind = "plain"

\* generate_ai_suggestions was called for a tag the cache held at that time
CachedAtCall ==
    /\ call.op = "generate_ai_suggestions"
    /\ call.suggestion_type \in DOMAIN call.cache
    /\ call.cache[call.suggestion_type] # <<>>

\* C23: generate_ai_suggestions does not wait for the refresh it creates:
\* for a cached tag the list it returned is, and stays, the first count
\* entries of the cache as the call found it, whatever the background tasks
\* do to the cache while the caller holds the list.
C23_ReturnsCacheAtCall ==
    CachedAtCall =>
        result = Returned(Take(call.cache[call.suggestion_type], call.count))

\* the call created a refresh, the refresh ran and replaced the entry, and
\* the caller still holds the five entries the call found
C23_Witness ==
    /\ CachedAtCall
    /\ call.count = 5
    /\ call.cache.last_refresh # Float(call.at)
    /\ SUGGESTION_CACHE.last_refresh = Float(call.at)
    /\ background_tasks = <<>>
    /\ SUGGESTION_CACHE[call.suggestion_type] # call.cache[call.suggestion_type]
    /\ result = Returned(call.cache[call.suggestion_type])

\* the background task that ran in this step, if one did
TaskRan == Len(completed') = Len(completed) + 1
RanTask == completed'[Len(completed')]
EntryTags(cache) == DOMAIN cache \ {"last_refresh"}

\* C24: a background refresh whose generative-text call failed, or whose
\* service is not configured, leaves the cache entry of its tag and the
\* entries of all other tags unchanged.
C24_FailedRefreshKeepsCache ==
    [][(TaskRan /\ RanTask.task.fn = "refresh_ai_cache" /\ RanTask.failed)
          => /\ EntryTags(SUGGESTION_CACHE') = EntryTags(SUGGESTION_CACHE)
             /\ \A tag \in EntryTags(SUGGESTION_CACHE) :
                   SUGGESTION_CACHE'[tag] = SUGGESTION_CACHE[tag]]_vars

\* the tasks that wrote the entry of a tag, by their place in the log
Writers(tag) ==
    {k \in 1..Len(completed) :
        /\ completed[k].task.suggestion_type = tag
        /\ completed[k].suggestions # <<>>}
Latest(S) == CHOOSE k \in S : \A j \in S : j <= k
AllTags == CacheTags \cup EntryTags(SUGGESTION_CACHE_at_import)

\* C25: whatever the order in which background tasks of one tag complete,
\* the cache entry of the tag is at every moment one complete list: the
\* list written by the task that completed last, or, while none has
\* written, the entry the module was imported with (none for a tag that is
\* not pre-warmed).  It is never a mixture of two lists.
C25_LastWriterWins ==
    \A tag \in AllTags :
        IF Writers(tag) # {}
        THEN /\ tag \in DOMAIN SUGGESTION_CACHE
             /\ SUGGESTION_CACHE[tag] = completed[Latest(Writers(tag))].suggestions
        ELSE IF tag \in DOMAIN SUGGESTION_CACHE_at_import
        THEN SUGGESTION_CACHE[tag] = SUGGESTION_CACHE_at_import[tag]
        ELSE tag \notin DOMAIN SUGGESTION_CACHE

\* two refreshes of one tag were pending together, both have completed with
\* different lists, and the entry is the list of the one that completed last
C25_Witness ==
    /\ Len(completed) = 2
    /\ Len(spawn_times) = 2
    /\ completed[1].at >= spawn_times[2]
    /\ completed[1].task.fn = "refresh_ai_cache"
    /\ completed[2].task.fn = "refresh_ai_cache"
    /\ completed[1].task.suggestion_type = "campaign"
    /\ completed[2].task.suggestion_type = "campaign"
    /\ completed[1].suggestions # <<>>
    /\ completed[2].suggestions # <<>>
    /\ completed[1].suggestions # completed[2].suggestions
    /\ SUGGESTION_CACHE["campaign"] = completed[2].suggestions

PrewarmedTags == EntryTags(SUGGESTION_CACHE_at_import)

\* C30: after any sequence of suggestion requests and background tasks,
\* whether they succeeded, failed or returned nothing, the cache entry of
\* every pre-warmed tag is a non-empty list, and a request for such a tag
\* with count >= 1 returned at least one suggestion and at most count.
C30_PrewarmedNeverEmpty ==
    /\ \A tag \in PrewarmedTags :
          tag \in DOMAIN SUGGESTION_CACHE /\ SUGGESTION_CACHE[tag] # <<>>
    /\ (/\ call.op = "generate_ai_suggestions"
        /\ call.suggestion_type \in PrewarmedTags
        /\ call.count >= 1)
          => /\ ~IsRaise(result)
             /\ Len(result.value) >= 1
             /\ Len(result.value) <= call.count

\* a refresh of a pre-warmed tag returned nothing, and a later request for
\* the tag was answered with five suggestions
C30_Witness ==
    /\ call.op = "generate_ai_suggestions"
    /\ call.suggestion_type = "campaign"
    /\ call.count = 5
    /\ Len(completed) = 1
    /\ completed[1].task.suggestion_type = "campaign"
    /\ completed[1].task.count = 5
    /\ completed[1].suggestions = <<>>
    /\ completed[1].at < call.at
    /\ Len(result.value) = 5

\* the tracker records returned during the submission
TrackerResults ==
    {result.events[k].outcome : k \in
        {j \in 1..Len(result.events) :
            /\ result.events[j].kind = "adapter"
            /\ result.events[j].service = "monday"
            /\ result.events[j].outcome # None}}

\* the reminder events whose creation was attempted for a subtask
RemindersFor(subtask) ==
    {j \in 1..Len(result.events) :
        /\ result.events[j].kind = "adapter"
        /\ result.events[j].service = "calendar"
        /\ result.events[j].outcome.title =
              "Due: " \o subtask.name \o " - " \o Join(SubmittedForm.event_name.v)
        /\ result.events[j].outcome.start_date = subtask.due_date}

\* C26: in the unified workflow, for every subtask returned by the tracker
\* adapter whose reminder flag is set exactly one reminder event is created,
\* titled with the subtask and due on its due date, and none is created for
\* a subtask whose flag is not set.
C26_ReminderPerFlaggedSubtask ==
    (WorkflowRan /\ result.exc = "none") =>
        \A record \in TrackerResults :
            \A i \in 1..Len(record.subtasks) :
                Cardinality(RemindersFor(record.subtasks[i]))
                    = IF record.subtasks[i].calendar_reminder THEN 1 ELSE 0

\* the chat_postMessage calls of the run in result
Posts ==
    SelectSeq(result.events,
              LAMBDA e : e.kind = "client" /\ e.method = "chat_postMessage")
UsedPostToChannelSafe ==
    call.op \in {"post_to_channel_safe", "handle_campaign_submission"}

\* C27: post_to_channel_safe never raises; it first posts to the target
\* channel; only if that attempt fails does it attempt one direct message,
\* marked as coming from the channel, to the user; it makes at most two
\* attempts, and when the first succeeds no direct message follows.
C27_ChannelThenDirectMessage ==
    UsedPostToChannelSafe =>
        /\ result.exc = "none"
        /\ Len(Posts) \in {1, 2}
        /\ Posts[1].target = call.channel
        /\ Posts[1].ok = call.posts[1]
        /\ call.op = "post_to_channel_safe" => Posts[1].text = call.text
        /\ Posts[1].ok => Len(Posts) = 1
        /\ ~Posts[1].ok =>
              /\ Len(Posts) = 2
              /\ Posts[2].target = call.user_id
              /\ Posts[2].text = [from |-> call.channel, text |-> Posts[1].text]

\* the channel post of a campaign confirmation failed and the direct
\* message was attempted, failing as well
C27_Witness ==
    /\ call.op = "handle_campaign_submission"
    /\ Len(Posts) = 2
    /\ ~Posts[1].ok
    /\ ~Posts[2].ok
    /\ Posts[2].target = call.user_id
    /\ result.exc = "none"

\* the client calls of the run that succeeded
Succeeded(calls) == {k \in 1..Len(calls) : calls[k].ok}

\* C28: for every navigation type, body shape and combination of failing
\* and succeeding client calls, one run of handle_modal_navigation has at
\* most one client call that succeeds; it returns normally if and only if
\* exactly one succeeded, and raises if and only if none did.
C28_ShownAtMostOnce ==
    Navigated =>
        /\ Cardinality(Succeeded(result.calls)) <= 1
        /\ (result.exc = "none") <=> (Cardinality(Succeeded(result.calls)) = 1)
        /\ (result.exc # "none") <=> (Succeeded(result.calls) = {})
        /\ Succeeded(result.calls) \subseteq {Len(result.calls)}

\* an update whose first three client calls fail and whose last resort,
\* views_open, shows the modal
C28_Witness ==
    /\ Navigated
    /\ call.navigation_type = "update"
    /\ Len(result.calls) = 4
    /\ Succeeded(result.calls) = {4}
    /\ result.calls[4].method = "views_open"
    /\ result.exc = "none"

\* the positions of the subtasks of a list that carry a given name
Named(subtasks, name) == {j \in 1..Len(subtasks) : subtasks[j].name = name}

\* C29: in every subtask list of the unified workflow each dependency of a
\* subtask names a subtask that appears earlier in the list, so the
\* dependency relation is acyclic, and no subtask is due before a subtask
\* it depends on.
C29_DependenciesComeFirst ==
    (WorkflowCalled /\ result # None) =>
        \A i \in 1..Len(result.subtasks) :
            \A d \in 1..Len(result.subtasks[i].dependencies) :
                LET named == Named(result.subtasks, result.subtasks[i].dependencies[d])
                IN  /\ named # {}
                    /\ \A j \in named :
                          /\ j < i
                          /\ DayOf(result.subtasks[j].due_date)
                                <= DayOf(result.subtasks[i].due_date)

\* a workflow with two deliverable items, each depending on the last review
C29_Witness ==
    /\ WorkflowCalled
    /\ result # None
    /\ Len(result.subtasks) = 5
    /\ result.subtasks[5].dependencies = <<result.subtasks[3].name>>
    /\ result.subtasks[2].dependencies = <<result.subtasks[1].name>>
    /\ DayOf(result.subtasks[3].due_date) < DayOf(result.subtasks[5].due_date)

====
